---------------------------- MODULE Spec2Model ----------------------------
(***************************************************************************)
(* State-machine model of the bestest judge (shuntia/bestest).             *)
(*                                                                         *)
(*   Spec      test_dirs with several judge units sharing the semaphore    *)
(*   SpecCase  test_dirs with one judge unit and the full set of process   *)
(*             outputs (the per-case classification of test_proc)          *)
(*   SpecScreen  run() from the call of check_dirs to the call of          *)
(*             test_dirs: the security screen and the pruning of exec      *)
(*   SpecCheck   one call of static_check::check on one file               *)
(*   SpecRun     run() from the return of unpack_dir to the list that      *)
(*             test_dirs returns, without test cases                       *)
(*   SpecHang    test_dirs with programs that never end by themselves,     *)
(*             under weak fairness                                         *)
(*   SpecUnpack  unpack_dir over a directory of a few entries              *)
(*   SpecRoute   unpack_dir over one entry, with every short file name     *)
(*   SpecRunner  the methods of one JavaRunner, called in any order        *)
(*   SpecResolve test_dirs with one unit over a workspace whose entries    *)
(*             are given (runner::from_dir)                                *)
(*                                                                         *)
(* Strings that the code inspects (stdout, expected text) are sequences of *)
(* one-character strings; strings that are only carried (reasons) are TLA+ *)
(* strings.  Option::None is the value None.                               *)
(***************************************************************************)
EXTENDS Integers, Sequences, FiniteSets, TLC

(***************************************************************************)
(* Bounds of the model.                                                    *)
(***************************************************************************)
MaxThreads == 2
MaxWorkspaces == 2
ConcCases == 1
MaxCases == 2
MaxFaults == 1
\* entries directly in a workspace directory
MaxListing == 2
\* the bytes a pipe takes before a write to it has to wait for the reader
PipeCapacity == 4

None == <<>>
Some(x) == <<x>>

Max(a, b) == IF a >= b THEN a ELSE b

Range(s) == {s[k] : k \in 1..Len(s)}

VARIABLES
    threads,      \* CONFIG.threads
    testcases,    \* CONFIG.testcases
    v,            \* test_dirs: the workspaces collected from p
    outs,         \* the texts a submission's program may print
    nested,       \* the entry point of a workspace lies in a subdirectory
    faults,       \* failures the environment may still inject
    permits,      \* test_dirs: permits available in the semaphore
    pc,           \* test_file_progress: position of each unit
    holds,        \* test_file_progress: the unit owns `permit`
    i,            \* test_file_progress: loop index (1-based, next case)
    ret,          \* test_file_progress: `ret`, the outcomes pushed so far
    out,          \* the value each finished unit returned (out.1)
    proc,         \* JavaRunner: process (the case whose child it holds), start
    classFile,    \* a .class file lies directly in the workspace
    child,        \* the OS processes spawned by run(), per unit and case
    awaited,      \* test_dirs: number of handles awaited so far
    results,      \* test_dirs: `ret`
    returned,     \* test_dirs: "no", "Ok" or "Err"
    acquired,     \* history: number of permits each unit has acquired
    runLog,       \* history: the cases for which run() was invoked, in order
    fed,          \* history: the cases whose input was written to stdin
    timedOut,     \* history: the cases whose timeout elapsed
    lastPoll,     \* history: the last value running() returned to the unit
    allow,        \* CONFIG.allow
    tree,         \* the files below TEMPDIR
    unpacked,     \* run: the keys of the workspaces whose unpack returned Ok
    task,         \* check_dirs: position of each changefile task
    semaphore,    \* check_dirs: permits available in the semaphore
    resultsLock,  \* check_dirs: the task holding the lock of `results`
    findings,     \* check_dirs: `results`, the findings per scanned file
    errs,         \* check_dirs: `errors`, the files whose scan returned Err
    joined,       \* check_dirs: the handles awaited so far
    phase,        \* run: where the run is
    exec,         \* run: `exec`, the set passed to test_dirs
    file,         \* check: the file handed to one call of check
    verdict,      \* check: what that call returned
    target,       \* run: `target`, the results unpack_dir returned
    report,       \* run: what summarize_submissions returned
    format,       \* CONFIG.format
    orderby,      \* CONFIG.orderby
    dir,          \* unpack_dir: the entries of the target directory
    handles,      \* unpack_dir: position and result of each unpack task
    sp,           \* unpack_dir: permits available in the semaphore
    created,      \* the directories and files created below TEMPDIR
    wrote,        \* for each file below TEMPDIR, the entry whose bytes it holds
    called,       \* the last method called on a runner, with what it returned
    listing,      \* what each workspace directory holds, None when left open
    config_entry  \* CONFIG.entry

vars == <<threads, testcases, v, outs, nested, faults, permits, pc, holds, i, ret, out, proc,
          classFile, child, awaited, results, returned, acquired, runLog,
          fed, timedOut, lastPoll, allow, tree, unpacked, task, semaphore,
          resultsLock, findings, errs, joined, phase, exec, file, verdict,
          target, report, format, orderby, dir, handles, sp, created,
          wrote, called, listing, config_entry>>

cfgVars == <<threads, testcases, v, outs, nested>>
collectVars == <<awaited, results, returned>>
semVars == <<permits, holds>>
loopVars == <<i, ret>>
inputVars == <<threads, allow, tree, unpacked, target>>
checkVars == <<file, verdict>>
unpackVars == <<format, orderby, dir, handles, sp, created, wrote>>
\* `called` is written by the calls made on a runner outside the harness, and
\* is left alone by the steps of the judge and by those of the screen
apiVars == <<called>>
\* the workspace listings and CONFIG.entry are read by from_dir only
dirVars == <<listing, config_entry>>
screenState == <<allow, tree, unpacked, task, semaphore, resultsLock, findings,
                 errs, joined, phase, exec, checkVars, target, report, unpackVars>>
screenVars == <<screenState, apiVars, dirVars>>
judgeVars == <<testcases, v, outs, nested, faults, permits, pc, holds, i, ret,
               out, proc, classFile, child, awaited, results, returned,
               acquired, runLog, fed, timedOut, lastPoll, apiVars, dirVars>>

(***************************************************************************)
(* Test cases and process output.                                          *)
(***************************************************************************)
NL == "\n"

\* TestCase {input, expected, points}; the k-th configured case.
TestCase(k) ==
    [input    |-> IF k % 2 = 1 THEN <<"3", NL, "4", NL>> ELSE <<>>,
     expected |-> IF k % 2 = 1 THEN <<"7", NL>> ELSE <<"7", NL, "9">>,
     points   |-> 10 * k]

Config_testcases(n) == [k \in 1..n |-> TestCase(k)]

AllOutputs == {<<"7", NL>>, <<"7">>, <<"8", NL>>, <<"7", NL, "9">>,
               <<"7", NL, "9", NL>>, <<>>}
ConcOutputs == {<<"7", NL>>}


(***************************************************************************)
(* Diff/Compare: imara_diff over the lines of expected and actual.  A line *)
(* token keeps its terminator.  Only the two counters are used by the      *)
(* harness; any line diff leaves exactly the lines outside a common        *)
(* subsequence unmatched, and none iff the two sequences are equal.        *)
(***************************************************************************)
FirstNL(s) ==
    IF \E k \in 1..Len(s) : s[k] = NL
    THEN CHOOSE k \in 1..Len(s) : s[k] = NL /\ \A j \in 1..(k - 1) : s[j] # NL
    ELSE 0

RECURSIVE Lines(_)
Lines(s) ==
    IF s = <<>> THEN <<>>
    ELSE IF FirstNL(s) = 0 THEN <<s>>
    ELSE <<SubSeq(s, 1, FirstNL(s))>> \o Lines(SubSeq(s, FirstNL(s) + 1, Len(s)))

RECURSIVE Lcs(_, _)
Lcs(a, b) ==
    IF a = <<>> \/ b = <<>> THEN 0
    ELSE IF Head(a) = Head(b) THEN 1 + Lcs(Tail(a), Tail(b))
    ELSE Max(Lcs(Tail(a), b), Lcs(a, Tail(b)))

\* Diff::compute(Algorithm::Histogram, InternedInput::new(before, after))
Diff_compute(before, after) ==
    LET lb == Lines(before)
        la == Lines(after)
        common == Lcs(lb, la)
    IN  [removals |-> Len(lb) - common, additions |-> Len(la) - common]

NoDiff == [removals |-> 0, additions |-> 0]

(***************************************************************************)
(* TestResult                                                              *)
(***************************************************************************)
Correct(k, output) ==
    [kind |-> "Correct", case |-> k, output |-> output, diff |-> NoDiff,
     code |-> 0, reason |-> ""]
Wrong(k, output, diff) ==
    [kind |-> "Wrong", case |-> k, output |-> output, diff |-> diff,
     code |-> 0, reason |-> ""]
Error(code, reason) ==
    [kind |-> "Error", case |-> 0, output |-> <<>>, diff |-> NoDiff,
     code |-> code, reason |-> reason]

is_correct(r) == r.kind = "Correct"

\* mutant: only the additions are counted
Classify_additions(k, output) ==
    LET diff == Diff_compute(testcases[k].expected, output)
    IN  IF diff.additions = 0
        THEN Correct(k, output)
        ELSE Wrong(k, output, diff)

\* test_proc, after read_all: classify the captured text against the case
Classify(k, output) ==
    LET diff == Diff_compute(testcases[k].expected, output)
    IN  IF diff.additions + diff.removals = 0
        THEN Correct(k, output)
        ELSE Wrong(k, output, diff)

SIGKILL == 9
TimedOutResult == Error(SIGKILL, "Timed out.")

(***************************************************************************)
(* RunError and the value a unit returns                                   *)
(***************************************************************************)
CE(code, reason) == [tag |-> "CE", code |-> code, reason |-> reason]
RE(code, reason) == [tag |-> "RE", code |-> code, reason |-> reason]
OkRet == [tag |-> "Ok", code |-> None, reason |-> ""]
Pending == [tag |-> "Pending", code |-> None, reason |-> ""]
Panicked == [tag |-> "Panic", code |-> None, reason |-> ""]

unwrap_or(code, d) == IF code = None THEN d ELSE code[1]

unwrap(opt) == opt[1]

Units == Range(v)
NumCases == Len(testcases)

\* what a call of a method of the runner returned: Ok or Err with its
\* reason, or true or false; `data` is the text of an Ok(String)
Called(fn, tag, val, data) == [fn |-> fn, tag |-> tag, val |-> val, data |-> data]

NoChild == [st |-> "none", output |-> <<>>, killed |-> FALSE, code |-> None]
NoProc == [process |-> None, start |-> None, exitcode |-> None, entry |-> None]


(***************************************************************************)
(* What the environment can answer.                                        *)
(***************************************************************************)
\* runner::from_dir: a runner, no runner, or a panic of one of its unwraps
FromDirOutcomes == {"Some", "None", "Panic"}

(***************************************************************************)
(* runner::from_dir over a workspace whose content is given.  A listing    *)
(* is the name of the workspace directory and its entries in read_dir      *)
(* order; an entry has a name, an extension and, for a directory, the      *)
(* files inside.  Names are sequences of characters.                       *)
(***************************************************************************)
DirEntry(name, ext, is_dir, inner) ==
    [name |-> name, ext |-> ext, dir |-> is_dir, inner |-> inner]

MainJava == DirEntry(<<"M", "a", "i", "n", ".", "j", "a", "v", "a">>, Some("java"),
                     FALSE, <<>>)
SolJava == DirEntry(<<"S", "o", "l", ".", "j", "a", "v", "a">>, Some("java"),
                    FALSE, <<>>)
NotesTxt == DirEntry(<<"n", "o", "t", "e", "s", ".", "t", "x", "t">>, Some("txt"),
                     FALSE, <<>>)
Readme == DirEntry(<<"R", "E", "A", "D", "M", "E">>, None, FALSE, <<>>)
SrcDir == DirEntry(<<"s", "r", "c">>, None, TRUE, <<>>)
SrcDirMain == DirEntry(<<"s", "r", "c">>, None, TRUE, <<MainJava>>)

\* str::to_lowercase
to_lowercase(s) ==
    LET lower == [c \in {"M", "S", "R", "E", "A", "D"} |->
                     CASE c = "M" -> "m" [] c = "S" -> "s" [] c = "R" -> "r"
                       [] c = "E" -> "e" [] c = "A" -> "a" [] c = "D" -> "d"]
    IN  [k \in 1..Len(s) |-> IF s[k] \in DOMAIN lower THEN lower[s[k]] ELSE s[k]]

RECURSIVE Flatten(_)
\* the entries below the workspace in the order WalkDir yields them
Flatten(es) ==
    IF es = <<>> THEN <<>>
    ELSE <<Head(es)>> \o Head(es).inner \o Flatten(Tail(es))

\* WalkDir::new(p): the directory itself first, then what lies below it
WalkDir(l) == <<DirEntry(l.root, None, TRUE, l.entries)>> \o Flatten(l.entries)

\* unpacker::find_in_dir(p, target)
find_in_dir(l, tgt) ==
    LET walk == WalkDir(l)
        hit(k) == LET hay == to_lowercase(walk[k].name)
                      needle == to_lowercase(tgt)
                  IN  \E j \in 0..(Len(hay) - Len(needle)) :
                          SubSeq(hay, j + 1, j + Len(needle)) = needle
    IN  IF \E k \in 1..Len(walk) : hit(k)
        THEN Some(walk[CHOOSE k \in 1..Len(walk) :
                          hit(k) /\ \A j \in 1..(k - 1) : ~hit(j)])
        ELSE None

FromDirSome(e) == [tag |-> "Some", entry |-> Some(e.name)]
FromDirNone == [tag |-> "None", entry |-> None]
FromDirPanic == [tag |-> "Panic", entry |-> None]

\* from_dir, both arms of `match &CONFIG.entry`: the probe, the fallback
\* to the only entry, and the match on the extension of the entry point
runner_from_dir(l, cfg) ==
    LET main == find_in_dir(l, <<"m", "a", "i", "n">>)
        probe == IF cfg # None /\ find_in_dir(l, unwrap(cfg)) # None
                 THEN find_in_dir(l, unwrap(cfg))
                 ELSE main
    IN  IF probe = None /\ Len(l.entries) > 1 THEN FromDirNone
        ELSE IF probe = None /\ Len(l.entries) = 0 THEN FromDirPanic
        ELSE LET e == IF probe = None THEN l.entries[1] ELSE unwrap(probe)
             IN  IF e.ext = None THEN FromDirPanic
                 ELSE IF e.ext = Some("java") THEN FromDirSome(e)
                 ELSE FromDirNone
\* JavaRunner::prepare: javac exit code 0, another exit code, or no javac
PrepareOutcomes == {OkRet, CE(Some(1), "javac stderr"), CE(None, "spawn failed")}
\* Command::spawn in run()
SpawnOutcomes == {OkRet, RE(None, "spawn failed")}
\* JavaRunner::stdin: write_all fails when the child's end of the pipe is
\* closed (the child has closed its stdin or has exited); nothing is written
\* for an empty input
StdinOutcomes(input) == IF input = <<>> THEN {"Ok"} ELSE {"Ok", "Err"}

\* write_all(..).await stays pending once the pipe is full, for as long as the
\* child does not read its stdin; nothing in test_proc bounds this await
WriteAllOutcomes(input) == IF Len(input) > PipeCapacity THEN {"Pending"} ELSE {}

\* the outcomes the remaining fault budget admits; ok is the regular one
Allowed(outcomes, ok) == IF faults > 0 THEN outcomes ELSE outcomes \cap {ok}
Charge(o, ok) == IF o = ok THEN faults ELSE faults - 1

(***************************************************************************)
(* test_file_progress, one judge unit per workspace                        *)
(***************************************************************************)
\* mutant: one permit too many
Semaphore_new_plus1(t) == Max(t, 1) + 1

\* Semaphore::new(cfg.threads.max(1))
Semaphore_new(t) == Max(t, 1)

\* drop(permit), explicit or by leaving the scope that owns it
Release(w) ==
    /\ permits' = IF holds[w] THEN permits + 1 ELSE permits
    /\ holds' = [holds EXCEPT ![w] = FALSE]

\* return (path, e), or the panic of the task; `permit` is dropped
Return(w, e) ==
    /\ out' = [out EXCEPT ![w] = e]
    /\ pc' = [pc EXCEPT ![w] = "returned"]
    /\ Release(w)

\* mutant: the outcome is put in front of the list
Push_front(w, r) ==
    /\ ret' = [ret EXCEPT ![w] = <<r>> \o @]
    /\ i' = [i EXCEPT ![w] = @ + 1]
    /\ pc' = [pc EXCEPT ![w] = "loop"]
    /\ UNCHANGED <<semVars, out>>

\* mutant: the permit is given back after every case
Push_release(w, r) ==
    /\ ret' = [ret EXCEPT ![w] = Append(@, r)]
    /\ i' = [i EXCEPT ![w] = @ + 1]
    /\ pc' = [pc EXCEPT ![w] = "loop"]
    /\ permits' = IF holds[w] THEN permits + 1 ELSE permits
    /\ holds' = [holds EXCEPT ![w] = FALSE]
    /\ UNCHANGED out

\* let push = test_proc(..).await; ret.push(push); next index
Push(w, r) ==
    /\ ret' = [ret EXCEPT ![w] = Append(@, r)]
    /\ i' = [i EXCEPT ![w] = @ + 1]
    /\ pc' = [pc EXCEPT ![w] = "loop"]
    /\ UNCHANGED <<semVars, out>>

\* semaphore.acquire().await
Acquire(w) ==
    /\ pc[w] = "spawned"
    /\ permits > 0
    /\ permits' = permits - 1
    /\ holds' = [holds EXCEPT ![w] = TRUE]
    /\ acquired' = [acquired EXCEPT ![w] = @ + 1]
    /\ pc' = [pc EXCEPT ![w] = "from_dir"]
    /\ UNCHANGED <<screenVars, cfgVars, collectVars, faults, loopVars, out, proc,
                   classFile, child, runLog, fed, timedOut, lastPoll>>

\* what from_dir may return for workspace w
FromDir(w) ==
    IF listing[w] = None
    THEN {IF o = "Some" THEN FromDirSome(MainJava) ELSE [tag |-> o, entry |-> None] :
             o \in Allowed(FromDirOutcomes, "Some")}
    ELSE {runner_from_dir(unwrap(listing[w]), config_entry)}

\* runner::from_dir(path, Some(Language::Java)).await
from_dir(w) ==
    /\ pc[w] = "from_dir"
    /\ \E r \in FromDir(w) :
         /\ faults' = IF listing[w] = None THEN Charge(r.tag, "Some") ELSE faults
         /\ CASE r.tag = "Some" ->
                   /\ pc' = [pc EXCEPT ![w] = "prepare"]
                   /\ proc' = [proc EXCEPT ![w].entry = r.entry]
                   /\ UNCHANGED <<semVars, out>>
              [] r.tag = "None" ->
                   /\ Return(w, CE(None, "Runner initialization failed"))
                   /\ UNCHANGED proc
              [] r.tag = "Panic" ->
                   /\ Return(w, Panicked)
                   /\ UNCHANGED proc
    /\ UNCHANGED <<screenVars, cfgVars, collectVars, loopVars, classFile, child,
                   acquired, runLog, fed, timedOut, lastPoll>>

\* proc.prepare().await
prepare(w) ==
    /\ pc[w] = "prepare"
    /\ \E o \in Allowed(PrepareOutcomes, OkRet) :
         /\ faults' = Charge(o, OkRet)
         /\ IF o = OkRet
            THEN /\ classFile' = [classFile EXCEPT ![w] = ~nested[w]]
                 /\ pc' = [pc EXCEPT ![w] = "loop"]
                 /\ UNCHANGED <<semVars, out>>
            ELSE /\ Return(w, o)
                 /\ UNCHANGED classFile
    /\ UNCHANGED <<screenVars, cfgVars, collectVars, loopVars, proc, child, acquired,
                   runLog, fed, timedOut, lastPoll>>

\* JavaRunner::run as called by test_proc: the value it returns; prepare()
\* is invoked again when no .class file lies directly in the workspace
RunOutcomes(w) ==
    (IF classFile[w] THEN {} ELSE PrepareOutcomes \ {OkRet}) \cup SpawnOutcomes

\* run() returns Err through one of its `?`: the prepare() it invoked has
\* failed, or Command::spawn has; self.process and self.start are assigned
\* after both
run_failed_spawned(w, o) ==
    /\ Push(w, Error(unwrap_or(o.code, -1), o.reason))
    /\ child' = [child EXCEPT ![w][i[w]] =
            [st |-> "alive", output |-> <<>>, killed |-> FALSE, code |-> None]]
    /\ proc' = [proc EXCEPT ![w].process = Some(i[w]), ![w].start = Some(i[w])]
run_failed(w, o) ==
    /\ Push(w, Error(unwrap_or(o.code, -1), o.reason))
    /\ UNCHANGED <<child, proc>>

\* test_proc: proc.run().await
run(w) ==
    /\ pc[w] = "loop"
    /\ i[w] <= NumCases
    /\ runLog' = [runLog EXCEPT ![w] = Append(@, i[w])]
    /\ \E o \in Allowed(RunOutcomes(w), OkRet) :
         /\ faults' = Charge(o, OkRet)
         /\ IF o = OkRet
            THEN /\ child' = [child EXCEPT ![w][i[w]] =
                         [st |-> "alive", output |-> <<>>, killed |-> FALSE, code |-> None]]
                 /\ proc' = [proc EXCEPT ![w].process = Some(i[w]),
                                          ![w].start = Some(i[w])]
                 /\ pc' = [pc EXCEPT ![w] = "stdin"]
                 /\ UNCHANGED <<semVars, loopVars, out>>
            ELSE run_failed(w, o)
    /\ UNCHANGED <<screenVars, cfgVars, collectVars, classFile, acquired, fed, timedOut,
                   lastPoll>>

\* test_proc: proc.stdin(testcase.input.clone()).await
stdin(w) ==
    /\ pc[w] = "stdin"
    /\ \E o \in Allowed(StdinOutcomes(testcases[i[w]].input), "Ok")
                  \cup WriteAllOutcomes(testcases[i[w]].input) :
         CASE o = "Ok" ->
                /\ pc' = [pc EXCEPT ![w] = "wait"]
                /\ fed' = [fed EXCEPT ![w] = @ \cup {i[w]}]
                /\ UNCHANGED <<faults, semVars, loopVars, out>>
           [] o = "Err" ->
                /\ faults' = Charge(o, "Ok")
                /\ Push(w, Error(-1, "failed to input stdin for process"))
                /\ UNCHANGED fed
           [] o = "Pending" ->
                /\ pc' = [pc EXCEPT ![w] = "write_all"]
                /\ UNCHANGED <<faults, semVars, loopVars, out, fed>>
    /\ UNCHANGED <<screenVars, cfgVars, collectVars, proc, classFile, child, acquired,
                   runLog, timedOut, lastPoll>>

\* mutant: self.process keeps the child of the first case
Held_first(w) == child[w][1]

\* the child held in self.process
Held(w) == child[w][unwrap(proc[w].process)]

\* Child::wait / Child::try_wait observe the exit and reap the child
Reap(w) ==
    IF proc[w].process # None /\ Held(w).st = "exited"
    THEN [child EXCEPT ![w][unwrap(proc[w].process)].st = "reaped"]
    ELSE child

\* test_proc: proc.wait() finishes within the timeout; read_all and the diff
wait_read_all(w) ==
    /\ pc[w] = "wait"
    /\ proc[w].process # None
    /\ Held(w).st = "exited"
    /\ child' = Reap(w)
    /\ Push(w, Classify(i[w], Held(w).output))
    /\ UNCHANGED <<screenVars, cfgVars, collectVars, faults, proc, classFile, acquired,
                   runLog, fed, timedOut, lastPoll>>

\* JavaRunner::signal: kill(pid, s)
signal(w) ==
    IF proc[w].process = None THEN child
    ELSE [child EXCEPT ![w][unwrap(proc[w].process)].killed = TRUE]

\* test_proc: the timeout elapses before the child has exited; SIGKILL
timeout(w) ==
    /\ pc[w] = "wait"
    /\ proc[w].process # None
    /\ Held(w).st = "alive"
    /\ timedOut' = [timedOut EXCEPT ![w] = @ \cup {i[w]}]
    /\ child' = signal(w)
    /\ pc' = [pc EXCEPT ![w] = "poll"]
    /\ UNCHANGED <<screenVars, cfgVars, collectVars, faults, semVars, loopVars, out, proc,
                   classFile, acquired, runLog, fed, lastPoll>>

\* ExitStatus::code() of the child held in self.process once it has ended
Status_code(w) == Held(w).code

\* mutant: the cell takes every code it is given
OnceLock_set_again(cell, code) == IF code = None THEN cell ELSE code
\* JavaRunner::running, Ok(Some(status)): if let Some(code) = status.code()
\* { let _ = self.exitcode.set(code) }; OnceLock::set keeps a value it has
OnceLock_set(cell, code) == IF cell = None THEN code ELSE cell

\* mutant: the child is never reported as running
running_never(w) == FALSE

\* JavaRunner::running: Some(child), try_wait() gives Ok(None)
running(w) ==
    /\ proc[w].process # None
    /\ Held(w).st = "alive"

\* mutant: after the kill the output is read and judged like any other
poll_judge(w) ==
    /\ pc[w] = "poll"
    /\ lastPoll' = [lastPoll EXCEPT ![w] = running(w)]
    /\ IF running(w)
       THEN UNCHANGED <<semVars, loopVars, out, pc, child>>
       ELSE /\ child' = Reap(w)
            /\ Push(w, Classify(i[w], Held(w).output))
    /\ proc' = IF running(w) THEN proc
               ELSE [proc EXCEPT ![w].exitcode = OnceLock_set(@, Status_code(w))]
    /\ UNCHANGED <<screenVars, cfgVars, collectVars, faults, classFile, acquired,
                   runLog, fed, timedOut>>

\* mutant: a timeout ends the loop
poll_abort(w) ==
    /\ pc[w] = "poll"
    /\ lastPoll' = [lastPoll EXCEPT ![w] = running(w)]
    /\ IF running(w)
       THEN UNCHANGED <<semVars, loopVars, out, pc, child>>
       ELSE /\ child' = Reap(w)
            /\ ret' = [ret EXCEPT ![w] = Append(@, TimedOutResult)]
            /\ i' = [i EXCEPT ![w] = NumCases + 1]
            /\ pc' = [pc EXCEPT ![w] = "loop"]
            /\ UNCHANGED <<semVars, out>>
    /\ proc' = IF running(w) THEN proc
               ELSE [proc EXCEPT ![w].exitcode = OnceLock_set(@, Status_code(w))]
    /\ UNCHANGED <<screenVars, cfgVars, collectVars, faults, classFile, acquired,
                   runLog, fed, timedOut>>

\* test_proc: while proc.running().await { sleep }; then the timed-out result
poll(w) ==
    /\ pc[w] = "poll"
    /\ lastPoll' = [lastPoll EXCEPT ![w] = running(w)]
    /\ IF running(w)
       THEN UNCHANGED <<semVars, loopVars, out, pc, child>>
       ELSE /\ child' = Reap(w)
            /\ Push(w, TimedOutResult)
    /\ proc' = IF running(w) THEN proc
               ELSE [proc EXCEPT ![w].exitcode = OnceLock_set(@, Status_code(w))]
    /\ UNCHANGED <<screenVars, cfgVars, collectVars, faults, classFile, acquired,
                   runLog, fed, timedOut>>

\* test_file_progress: the loop is over; drop(permit); (path, Ok(ret))
finish(w) ==
    /\ pc[w] = "loop"
    /\ i[w] > NumCases
    /\ Return(w, OkRet)
    /\ UNCHANGED <<screenVars, cfgVars, collectVars, faults, loopVars, proc, classFile,
                   child, acquired, runLog, fed, timedOut, lastPoll>>

(***************************************************************************)
(* The submission's program                                                *)
(***************************************************************************)
\* ExitStatus::code() of child k once it has ended: None when SIGKILL ended
\* it, and else its exit code, which the model names by the case the child
\* was started for
ExitStatus_code(w, k) == IF child[w][k].killed THEN None ELSE Some(k)

\* a child ends, by itself or killed, having printed one of the texts
child_exit(w, k) ==
    /\ child[w][k].st = "alive"
    /\ \E o \in outs :
         child' = [child EXCEPT ![w][k].st = "exited", ![w][k].output = o,
                                ![w][k].code = ExitStatus_code(w, k)]
    /\ UNCHANGED <<screenVars, cfgVars, collectVars, faults, semVars, loopVars, pc, out,
                   proc, classFile, acquired, runLog, fed, timedOut, lastPoll>>

\* a program that never ends by itself: the child ends only once SIGKILL has
\* been sent to it
child_killed(w, k) ==
    /\ child[w][k].st = "alive"
    /\ child[w][k].killed
    /\ \E o \in outs :
         child' = [child EXCEPT ![w][k].st = "exited", ![w][k].output = o]
    /\ UNCHANGED <<screenVars, cfgVars, collectVars, faults, semVars, loopVars, pc, out,
                   proc, classFile, acquired, runLog, fed, timedOut, lastPoll>>

(***************************************************************************)
(* The methods of JavaRunner, called on runner w in any order.  Each call  *)
(* leaves in `called` what it returned.                                    *)
(***************************************************************************)
runnerFrame == <<screenState, dirVars, cfgVars, collectVars, semVars, loopVars, pc, out,
                 acquired, fed, timedOut, lastPoll>>

\* run(): the child it starts is numbered by the invocation
JavaRunner_run(w) ==
    /\ Len(runLog[w]) < NumCases
    /\ runLog' = [runLog EXCEPT ![w] = Append(@, Len(@) + 1)]
    /\ \E o \in Allowed(RunOutcomes(w), OkRet) :
         /\ faults' = Charge(o, OkRet)
         /\ called' = Called("run", o.tag, o.reason, <<>>)
         /\ IF o = OkRet
            THEN /\ child' = [child EXCEPT ![w][Len(runLog[w]) + 1] =
                         [st |-> "alive", output |-> <<>>, killed |-> FALSE,
                          code |-> None]]
                 /\ proc' = [proc EXCEPT ![w].process = Some(Len(runLog[w]) + 1),
                                          ![w].start = Some(Len(runLog[w]) + 1)]
            ELSE UNCHANGED <<child, proc>>
    /\ UNCHANGED <<runnerFrame, classFile>>

\* stdin(input): write_all to the pipe of the child
JavaRunner_stdin(w) ==
    /\ IF proc[w].process = None
       THEN /\ called' = Called("stdin", "Err", "Process has not started yet!", <<>>)
            /\ UNCHANGED faults
       ELSE \E o \in Allowed(StdinOutcomes(testcases[unwrap(proc[w].process)].input),
                             "Ok") :
                /\ faults' = Charge(o, "Ok")
                /\ called' = Called("stdin", o, IF o = "Ok" THEN "" ELSE "Broken pipe",
                                    <<>>)
    /\ UNCHANGED <<runnerFrame, proc, classFile, child, runLog>>

\* read_all(): read_to_string returns at the end of the child's output
JavaRunner_read_all(w) ==
    /\ IF proc[w].process = None
       THEN called' = Called("read_all", "Err", "Process is not running!", <<>>)
       ELSE /\ Held(w).st # "alive"
            /\ called' = Called("read_all", "Ok", "", Held(w).output)
    /\ UNCHANGED <<runnerFrame, faults, proc, classFile, child, runLog>>

\* signal(s): kill(pid, s); Child::id() is None once the child was reaped
JavaRunner_signal(w) ==
    /\ CASE proc[w].process = None ->
               /\ called' = Called("signal", "Err",
                                   "tried to kill PID that does not exist", <<>>)
               /\ UNCHANGED child
         [] proc[w].process # None /\ Held(w).st = "reaped" ->
               /\ called' = Called("signal", "Err", "Process id is unavailable", <<>>)
               /\ UNCHANGED child
         [] OTHER ->
               /\ called' = Called("signal", "Ok", "", <<>>)
               /\ child' = signal(w)
    /\ UNCHANGED <<runnerFrame, faults, proc, classFile, runLog>>

\* mutant: the clock starts with the first question
JavaRunner_runtime_starts(w) ==
    /\ called' = Called("runtime", "Ok", "", <<>>)
    /\ proc' = [proc EXCEPT ![w].start = Some(0)]
    /\ UNCHANGED <<runnerFrame, faults, classFile, child, runLog>>
\* runtime(): self.start.as_ref().map_or(Err(()), |s| Ok(s.elapsed()))
JavaRunner_runtime(w) ==
    /\ called' = IF proc[w].start = None
                 THEN Called("runtime", "Err", "", <<>>)
                 ELSE Called("runtime", "Ok", "", <<>>)
    /\ UNCHANGED <<runnerFrame, faults, proc, classFile, child, runLog>>

\* wait(): process.wait().await returns once the child has ended
JavaRunner_wait(w) ==
    /\ IF proc[w].process = None
       THEN /\ called' = Called("wait", "Err", "process is not running", <<>>)
            /\ UNCHANGED child
       ELSE /\ Held(w).st # "alive"
            /\ called' = Called("wait", "Ok", "", <<>>)
            /\ child' = Reap(w)
    /\ UNCHANGED <<runnerFrame, faults, proc, classFile, runLog>>

\* running(): try_wait; a status with a code goes to the exit-code cell
JavaRunner_running(w) ==
    /\ CASE proc[w].process = None ->
               /\ called' = Called("running", "false", "", <<>>)
               /\ UNCHANGED <<child, proc>>
         [] proc[w].process # None /\ running(w) ->
               /\ called' = Called("running", "true", "", <<>>)
               /\ UNCHANGED <<child, proc>>
         [] OTHER ->
               /\ called' = Called("running", "false", "", <<>>)
               /\ child' = Reap(w)
               /\ proc' = [proc EXCEPT ![w].exitcode = OnceLock_set(@, Status_code(w))]
    /\ UNCHANGED <<runnerFrame, faults, classFile, runLog>>

(***************************************************************************)
(* test_dirs                                                               *)
(***************************************************************************)
errors_once(e) == <<Error(unwrap_or(e.code, -1), e.reason)>>

\* the uniform errors built for Err(RunError::RE | RunError::CE)
errors(e) == [k \in 1..NumCases |-> Error(unwrap_or(e.code, -1), e.reason)]

\* for handle in handles { handle.await ... }
await_handle ==
    /\ returned = "no"
    /\ awaited < Len(v)
    /\ LET w == v[awaited + 1] IN
         /\ pc[w] = "returned"
         /\ awaited' = awaited + 1
         /\ IF out[w].tag = "Panic"
            THEN returned' = "Err" /\ UNCHANGED results
            ELSE /\ results' = Append(results,
                        [path |-> w,
                         res  |-> IF out[w].tag = "Ok" THEN ret[w]
                                  ELSE errors(out[w])])
                 /\ UNCHANGED returned
    /\ UNCHANGED <<screenVars, cfgVars, faults, semVars, loopVars, pc, out, proc,
                   classFile, child, acquired, runLog, fed, timedOut, lastPoll>>

\* Ok(ret)
test_dirs_return ==
    /\ returned = "no"
    /\ awaited = Len(v)
    /\ returned' = "Ok"
    /\ UNCHANGED <<screenVars, cfgVars, faults, semVars, loopVars, pc, out, proc,
                   classFile, child, acquired, runLog, fed, timedOut, lastPoll,
                   awaited, results>>

(***************************************************************************)
(* report.rs: the scores computed from what test_dirs returned             *)
(***************************************************************************)
RECURSIVE Sum(_)
\* the sum of a list of u64 values
Sum(s) == IF s = <<>> THEN 0 ELSE Head(s) + Sum(Tail(s))

\* run(): config.testcases.iter().map(|tc| tc.points).sum()
total_points_available == Sum([k \in 1..NumCases |-> testcases[k].points])

\* mutant: a wrong answer is paid like a correct one
awarded_answered(result) ==
    IF result.kind \in {"Correct", "Wrong"} THEN testcases[result.case].points ELSE 0

\* what one result adds to submission_points: case.points in the Correct arm
awarded(result) ==
    IF result.kind = "Correct" THEN testcases[result.case].points ELSE 0

\* the CaseReport pushed for the result at position idx (0-based in the
\* code); the Error arm looks the case up with config.testcases.get(idx)
CaseReport(idx, result) ==
    [index   |-> idx,
     points  |-> IF result.kind = "Error"
                 THEN IF idx <= NumCases THEN testcases[idx].points ELSE 0
                 ELSE testcases[result.case].points,
     outcome |-> result.kind]

\* the SubmissionReport pushed for one (path, test_results)
SubmissionReport(entry, max_points_per_submission) ==
    [name           |-> entry.path,
     points_awarded |-> Sum([k \in 1..Len(entry.res) |-> awarded(entry.res[k])]),
     max_points     |-> max_points_per_submission,
     cases          |-> [k \in 1..Len(entry.res) |-> CaseReport(k, entry.res[k])]]

\* summarize_submissions(results, config, max_points_per_submission)
summarize_submissions(list, max_points_per_submission) ==
    LET submissions ==
            [k \in 1..Len(list) |-> SubmissionReport(list[k], max_points_per_submission)]
        passed(entry) ==
            Cardinality({k \in 1..Len(entry.res) : entry.res[k].kind = "Correct"})
    IN  [submissions |-> submissions,
         scoreboard  |-> [k \in 1..Len(list) |->
                             <<submissions[k].name, submissions[k].points_awarded>>],
         totals      |->
             [total_cases  |-> Sum([k \in 1..Len(list) |-> Len(list[k].res)]),
              passed_cases |-> Sum([k \in 1..Len(list) |-> passed(list[k])]),
              perfect_scores |->
                  Cardinality({k \in 1..Len(list) :
                      submissions[k].points_awarded = max_points_per_submission}),
              submissions_with_issues |->
                  Cardinality({k \in 1..Len(list) :
                      submissions[k].points_awarded # max_points_per_submission})]]

\* run(): let res = test_dirs(exec).await?; summarize_submissions(res, ..)
run_summarize ==
    /\ returned = "Ok"
    /\ report = None
    /\ report' = Some(summarize_submissions(results, total_points_available))
    /\ UNCHANGED <<judgeVars, threads, allow, tree, unpacked, task, semaphore,
                   resultsLock, findings, errs, joined, phase, exec, checkVars,
                   target, unpackVars>>

(***************************************************************************)
(* Security screen: checker.rs, and the pruning of the execution set in    *)
(* main.rs run().  Paths are sequences of components, file texts are       *)
(* sequences of one-byte strings.                                          *)
(***************************************************************************)
MaxFiles == 2
MaxDepth == 1

\* config::TEMPDIR
TEMPDIR == <<"tmp", "bestest-tmp">>

\* Path::parent, as used by run()
parent(p) == IF p = <<>> THEN None ELSE Some(SubSeq(p, 1, Len(p) - 1))

\* the ordering keys captured from the submitted file names
Keys == {"alice", "bob"}

\* unpack: workspace = TEMPDIR.join(key)
Workspace(key) == TEMPDIR \o <<key>>

\* enum Allow, in declaration order (the order of Allow::iter())
AllowIter == <<"FileIO", "SysAccess", "Runtime", "Threading", "Reflection",
              "ProcessExec", "SystemCall", "Network", "Assembly", "Signal",
              "Process", "Unsafe", "FFI", "Command", "OsAccess", "Eval",
              "Exec", "Import", "Ctypes", "Pickle", "Unknown", "All">>

\* the characters of a capability name or token (a Rust &str as its bytes)
Chars(name) ==
    CASE name = "All" ->
           <<"A", "l", "l">>
      [] name = "Assembly" ->
           <<"A", "s", "s", "e", "m", "b", "l", "y">>
      [] name = "Class.forName" ->
           <<"C", "l", "a", "s", "s", ".", "f", "o", "r", "N", "a", "m",
           "e">>
      [] name = "Class.getDeclaredMethod" ->
           <<"C", "l", "a", "s", "s", ".", "g", "e", "t", "D", "e", "c",
           "l", "a", "r", "e", "d", "M", "e", "t", "h", "o", "d">>
      [] name = "Class.getMethod" ->
           <<"C", "l", "a", "s", "s", ".", "g", "e", "t", "M", "e", "t",
           "h", "o", "d">>
      [] name = "Command" ->
           <<"C", "o", "m", "m", "a", "n", "d">>
      [] name = "Ctypes" ->
           <<"C", "t", "y", "p", "e", "s">>
      [] name = "Eval" ->
           <<"E", "v", "a", "l">>
      [] name = "Exec" ->
           <<"E", "x", "e", "c">>
      [] name = "ExecutorService" ->
           <<"E", "x", "e", "c", "u", "t", "o", "r", "S", "e", "r", "v",
           "i", "c", "e">>
      [] name = "Executors.new" ->
           <<"E", "x", "e", "c", "u", "t", "o", "r", "s", ".", "n", "e",
           "w">>
      [] name = "FFI" ->
           <<"F", "F", "I">>
      [] name = "FileIO" ->
           <<"F", "i", "l", "e", "I", "O">>
      [] name = "Import" ->
           <<"I", "m", "p", "o", "r", "t">>
      [] name = "Network" ->
           <<"N", "e", "t", "w", "o", "r", "k">>
      [] name = "OsAccess" ->
           <<"O", "s", "A", "c", "c", "e", "s", "s">>
      [] name = "Pickle" ->
           <<"P", "i", "c", "k", "l", "e">>
      [] name = "Process" ->
           <<"P", "r", "o", "c", "e", "s", "s">>
      [] name = "ProcessBuilder" ->
           <<"P", "r", "o", "c", "e", "s", "s", "B", "u", "i", "l", "d",
           "e", "r">>
      [] name = "ProcessExec" ->
           <<"P", "r", "o", "c", "e", "s", "s", "E", "x", "e", "c">>
      [] name = "Reflection" ->
           <<"R", "e", "f", "l", "e", "c", "t", "i", "o", "n">>
      [] name = "Runtime" ->
           <<"R", "u", "n", "t", "i", "m", "e">>
      [] name = "Runtime.exec" ->
           <<"R", "u", "n", "t", "i", "m", "e", ".", "e", "x", "e", "c">>
      [] name = "Runtime.getRuntime" ->
           <<"R", "u", "n", "t", "i", "m", "e", ".", "g", "e", "t", "R",
           "u", "n", "t", "i", "m", "e">>
      [] name = "SecurityManager" ->
           <<"S", "e", "c", "u", "r", "i", "t", "y", "M", "a", "n", "a",
           "g", "e", "r">>
      [] name = "Signal" ->
           <<"S", "i", "g", "n", "a", "l">>
      [] name = "SysAccess" ->
           <<"S", "y", "s", "A", "c", "c", "e", "s", "s">>
      [] name = "System.exit" ->
           <<"S", "y", "s", "t", "e", "m", ".", "e", "x", "i", "t">>
      [] name = "System.setSecurityManager" ->
           <<"S", "y", "s", "t", "e", "m", ".", "s", "e", "t", "S", "e",
           "c", "u", "r", "i", "t", "y", "M", "a", "n", "a", "g", "e",
           "r">>
      [] name = "SystemCall" ->
           <<"S", "y", "s", "t", "e", "m", "C", "a", "l", "l">>
      [] name = "TcpStream" ->
           <<"T", "c", "p", "S", "t", "r", "e", "a", "m">>
      [] name = "Thread" ->
           <<"T", "h", "r", "e", "a", "d">>
      [] name = "Thread.start" ->
           <<"T", "h", "r", "e", "a", "d", ".", "s", "t", "a", "r", "t">>
      [] name = "ThreadPoolExecutor" ->
           <<"T", "h", "r", "e", "a", "d", "P", "o", "o", "l", "E", "x",
           "e", "c", "u", "t", "o", "r">>
      [] name = "Threading" ->
           <<"T", "h", "r", "e", "a", "d", "i", "n", "g">>
      [] name = "UdpSocket" ->
           <<"U", "d", "p", "S", "o", "c", "k", "e", "t">>
      [] name = "Unknown" ->
           <<"U", "n", "k", "n", "o", "w", "n">>
      [] name = "Unsafe" ->
           <<"U", "n", "s", "a", "f", "e">>
      [] name = "__asm__" ->
           <<"_", "_", "a", "s", "m", "_", "_">>
      [] name = "__import__" ->
           <<"_", "_", "i", "m", "p", "o", "r", "t", "_", "_">>
      [] name = "asm" ->
           <<"a", "s", "m">>
      [] name = "bind" ->
           <<"b", "i", "n", "d">>
      [] name = "checkPermission" ->
           <<"c", "h", "e", "c", "k", "P", "e", "r", "m", "i", "s", "s",
           "i", "o", "n">>
      [] name = "connect" ->
           <<"c", "o", "n", "n", "e", "c", "t">>
      [] name = "ctypes" ->
           <<"c", "t", "y", "p", "e", "s">>
      [] name = "eval(" ->
           <<"e", "v", "a", "l", "(">>
      [] name = "exec" ->
           <<"e", "x", "e", "c">>
      [] name = "exec(" ->
           <<"e", "x", "e", "c", "(">>
      [] name = "execl" ->
           <<"e", "x", "e", "c", "l">>
      [] name = "execle" ->
           <<"e", "x", "e", "c", "l", "e">>
      [] name = "execlp" ->
           <<"e", "x", "e", "c", "l", "p">>
      [] name = "execv" ->
           <<"e", "x", "e", "c", "v">>
      [] name = "execve" ->
           <<"e", "x", "e", "c", "v", "e">>
      [] name = "execvp" ->
           <<"e", "x", "e", "c", "v", "p">>
      [] name = "extern" ->
           <<"e", "x", "t", "e", "r", "n">>
      [] name = "fclose" ->
           <<"f", "c", "l", "o", "s", "e">>
      [] name = "fopen" ->
           <<"f", "o", "p", "e", "n">>
      [] name = "fork" ->
           <<"f", "o", "r", "k">>
      [] name = "fread" ->
           <<"f", "r", "e", "a", "d">>
      [] name = "fwrite" ->
           <<"f", "w", "r", "i", "t", "e">>
      [] name = "invoke" ->
           <<"i", "n", "v", "o", "k", "e">>
      [] name = "java.io.FileInputStream" ->
           <<"j", "a", "v", "a", ".", "i", "o", ".", "F", "i", "l", "e",
           "I", "n", "p", "u", "t", "S", "t", "r", "e", "a", "m">>
      [] name = "java.io.FileOutputStream" ->
           <<"j", "a", "v", "a", ".", "i", "o", ".", "F", "i", "l", "e",
           "O", "u", "t", "p", "u", "t", "S", "t", "r", "e", "a", "m">>
      [] name = "java.io.FileReader" ->
           <<"j", "a", "v", "a", ".", "i", "o", ".", "F", "i", "l", "e",
           "R", "e", "a", "d", "e", "r">>
      [] name = "java.io.FileWriter" ->
           <<"j", "a", "v", "a", ".", "i", "o", ".", "F", "i", "l", "e",
           "W", "r", "i", "t", "e", "r">>
      [] name = "libc" ->
           <<"l", "i", "b", "c">>
      [] name = "new Thread" ->
           <<"n", "e", "w", " ", "T", "h", "r", "e", "a", "d">>
      [] name = "open(" ->
           <<"o", "p", "e", "n", "(">>
      [] name = "os.popen" ->
           <<"o", "s", ".", "p", "o", "p", "e", "n">>
      [] name = "os.system" ->
           <<"o", "s", ".", "s", "y", "s", "t", "e", "m">>
      [] name = "pickle.dumps" ->
           <<"p", "i", "c", "k", "l", "e", ".", "d", "u", "m", "p", "s">>
      [] name = "pickle.loads" ->
           <<"p", "i", "c", "k", "l", "e", ".", "l", "o", "a", "d", "s">>
      [] name = "popen" ->
           <<"p", "o", "p", "e", "n">>
      [] name = "raise" ->
           <<"r", "a", "i", "s", "e">>
      [] name = "recv" ->
           <<"r", "e", "c", "v">>
      [] name = "reflect" ->
           <<"r", "e", "f", "l", "e", "c", "t">>
      [] name = "reflection" ->
           <<"r", "e", "f", "l", "e", "c", "t", "i", "o", "n">>
      [] name = "requests.get" ->
           <<"r", "e", "q", "u", "e", "s", "t", "s", ".", "g", "e", "t">>
      [] name = "runtimeexec" ->
           <<"r", "u", "n", "t", "i", "m", "e", "e", "x", "e", "c">>
      [] name = "send" ->
           <<"s", "e", "n", "d">>
      [] name = "setAccessible" ->
           <<"s", "e", "t", "A", "c", "c", "e", "s", "s", "i", "b", "l",
           "e">>
      [] name = "signal" ->
           <<"s", "i", "g", "n", "a", "l">>
      [] name = "socket" ->
           <<"s", "o", "c", "k", "e", "t">>
      [] name = "std::fs::File" ->
           <<"s", "t", "d", ":", ":", "f", "s", ":", ":", "F", "i", "l",
           "e">>
      [] name = "std::io" ->
           <<"s", "t", "d", ":", ":", "i", "o">>
      [] name = "std::net" ->
           <<"s", "t", "d", ":", ":", "n", "e", "t">>
      [] name = "std::os::unix::process::Command" ->
           <<"s", "t", "d", ":", ":", "o", "s", ":", ":", "u", "n", "i",
           "x", ":", ":", "p", "r", "o", "c", "e", "s", "s", ":", ":", "C",
           "o", "m", "m", "a", "n", "d">>
      [] name = "std::process::Command" ->
           <<"s", "t", "d", ":", ":", "p", "r", "o", "c", "e", "s", "s",
           ":", ":", "C", "o", "m", "m", "a", "n", "d">>
      [] name = "std::thread" ->
           <<"s", "t", "d", ":", ":", "t", "h", "r", "e", "a", "d">>
      [] name = "subprocess" ->
           <<"s", "u", "b", "p", "r", "o", "c", "e", "s", "s">>
      [] name = "system" ->
           <<"s", "y", "s", "t", "e", "m">>
      [] name = "threading.Thread" ->
           <<"t", "h", "r", "e", "a", "d", "i", "n", "g", ".", "T", "h",
           "r", "e", "a", "d">>
      [] name = "unsafe" ->
           <<"u", "n", "s", "a", "f", "e">>
      [] name = "urllib" ->
           <<"u", "r", "l", "l", "i", "b">>
      [] name = "vfork" ->
           <<"v", "f", "o", "r", "k">>
      [] name = "wait" ->
           <<"w", "a", "i", "t">>
      [] name = "waitpid" ->
           <<"w", "a", "i", "t", "p", "i", "d">>

\* Allow::get_prohibited(&self, lang): the literal tokens of a category
get_prohibited(cat, lang) ==
    CASE lang = "C" ->
           CASE cat = "FileIO" -> <<"fopen", "fread", "fwrite", "fclose">>
             [] cat = "SystemCall" -> <<"fork", "exec", "system", "popen",
                    "vfork", "execl", "execlp", "execle", "execv", "execvp",
                    "execve">>
             [] cat = "Network" -> <<"socket", "bind", "connect", "recv",
                    "send">>
             [] cat = "Assembly" -> <<"asm", "__asm__">>
             [] cat = "Signal" -> <<"signal", "raise">>
             [] cat = "Process" -> <<"wait", "waitpid">>
             [] cat = "All" -> <<"fork", "exec", "system", "popen", "vfork",
                    "execl", "execlp", "execle", "execv", "execvp", "execve",
                    "fopen", "fread", "fwrite", "fclose", "socket", "bind",
                    "connect", "recv", "send", "asm", "__asm__", "signal",
                    "raise", "wait", "waitpid">>
             [] OTHER -> <<>>
      [] lang = "Cpp" ->
           CASE cat = "FileIO" -> <<"fopen", "fread", "fwrite", "fclose">>
             [] cat = "SystemCall" -> <<"fork", "exec", "system", "popen",
                    "vfork", "execl", "execlp", "execle", "execv", "execvp",
                    "execve">>
             [] cat = "Network" -> <<"socket", "bind", "connect", "recv",
                    "send">>
             [] cat = "Assembly" -> <<"asm", "__asm__">>
             [] cat = "Signal" -> <<"signal", "raise">>
             [] cat = "Process" -> <<"wait", "waitpid">>
             [] cat = "All" -> <<"fork", "exec", "system", "popen", "vfork",
                    "execl", "execlp", "execle", "execv", "execvp", "execve",
                    "fopen", "fread", "fwrite", "fclose", "socket", "bind",
                    "connect", "recv", "send", "asm", "__asm__", "signal",
                    "raise", "wait", "waitpid">>
             [] OTHER -> <<>>
      [] lang = "Rust" ->
           CASE cat = "FileIO" -> <<"std::fs::File", "std::io">>
             [] cat = "Threading" -> <<"std::thread">>
             [] cat = "Reflection" -> <<"reflect">>
             [] cat = "Network" -> <<"std::net", "TcpStream", "UdpSocket">>
             [] cat = "Unsafe" -> <<"unsafe">>
             [] cat = "FFI" -> <<"extern", "libc",
                    "std::os::unix::process::Command">>
             [] cat = "Command" -> <<"std::process::Command">>
             [] cat = "All" -> <<"unsafe", "std::fs::File", "std::io",
                    "std::net", "TcpStream", "UdpSocket", "std::thread",
                    "extern", "libc", "std::os::unix::process::Command",
                    "std::process::Command", "reflection">>
             [] OTHER -> <<>>
      [] lang = "Python" ->
           CASE cat = "FileIO" -> <<"open(">>
             [] cat = "Threading" -> <<"threading.Thread">>
             [] cat = "Network" -> <<"socket", "requests.get", "urllib",
                    "subprocess">>
             [] cat = "OsAccess" -> <<"os.system", "os.popen">>
             [] cat = "Eval" -> <<"eval(">>
             [] cat = "Exec" -> <<"exec(">>
             [] cat = "Import" -> <<"__import__">>
             [] cat = "Ctypes" -> <<"ctypes">>
             [] cat = "Pickle" -> <<"pickle.loads", "pickle.dumps">>
             [] cat = "All" -> <<"os.system", "os.popen", "eval(", "exec(",
                    "open(", "threading.Thread", "socket", "requests.get",
                    "urllib", "subprocess", "__import__", "ctypes",
                    "pickle.loads", "pickle.dumps">>
             [] OTHER -> <<>>
      [] lang = "Java" ->
           CASE cat = "FileIO" -> <<"java.io.FileInputStream",
                    "java.io.FileOutputStream", "java.io.FileReader",
                    "java.io.FileWriter">>
             [] cat = "SysAccess" -> <<"System.exit",
                    "System.setSecurityManager", "SecurityManager",
                    "checkPermission">>
             [] cat = "Runtime" -> <<"Runtime", "Runtime.exec",
                    "Runtime.getRuntime", "runtimeexec">>
             [] cat = "Threading" -> <<"Thread", "Thread.start",
                    "new Thread", "ExecutorService", "Executors.new",
                    "ThreadPoolExecutor">>
             [] cat = "Reflection" -> <<"reflect", "Class.forName",
                    "Class.getDeclaredMethod", "Class.getMethod",
                    "setAccessible", "invoke">>
             [] cat = "ProcessExec" -> <<"ProcessBuilder", "Runtime.exec">>
             [] cat = "All" -> <<"java.io.FileInputStream",
                    "java.io.FileOutputStream", "java.io.FileReader",
                    "java.io.FileWriter", "System.exit",
                    "System.setSecurityManager", "SecurityManager",
                    "checkPermission", "Runtime", "Runtime.exec",
                    "Runtime.getRuntime", "runtimeexec", "Thread",
                    "Thread.start", "reflect", "Class.forName",
                    "Class.getDeclaredMethod", "Class.getMethod",
                    "setAccessible", "invoke", "ProcessBuilder">>
             [] OTHER -> <<>>
      [] OTHER -> <<>>

\* config::KNOWN_EXTENSIONS
KNOWN_EXTENSIONS ==
    {"java", "jar", "c", "cpp", "rs", "py", "tar", "tar.gz", "gz", "zip"}

\* impl From<&str> for Language
Language(value) ==
    CASE value \in {"java", "jar"} -> "Java"
      [] value = "cpp" -> "Cpp"
      [] value = "c" -> "C"
      [] value = "rs" -> "Rust"
      [] value = "py" -> "Python"
      [] OTHER -> "Unknown"

\* the files a submission may consist of: name, extension, content, and
\* whether File::open succeeds
Samples ==
    {[name |-> "bare.py", ext |-> Some("py"), readable |-> TRUE,
      text |-> Chars("os.system")],
     [name |-> "call.py", ext |-> Some("py"), readable |-> TRUE,
      text |-> <<"x", NL>> \o Chars("os.system") \o <<NL>>],
     [name |-> "ok.py", ext |-> Some("py"), readable |-> TRUE,
      text |-> <<"x", NL>>],
     [name |-> "Main.java", ext |-> Some("java"), readable |-> TRUE,
      text |-> Chars("Runtime.exec") \o <<";", NL>>],
     [name |-> "gone.py", ext |-> Some("py"), readable |-> FALSE,
      text |-> <<>>],
     [name |-> "Makefile", ext |-> None, readable |-> TRUE,
      text |-> <<"x", NL>>],
     [name |-> "notes.txt", ext |-> Some("txt"), readable |-> TRUE,
      text |-> Chars("os.system") \o <<NL>>]}

Sample == [name \in {s.name : s \in Samples} |->
              CHOOSE s \in Samples : s.name = name]

\* a file of a workspace: directly in its root, or MaxDepth directories down
Files ==
    [key : Keys, depth : {0, MaxDepth}, name : {s.name : s \in Samples}]

path(f) ==
    Workspace(f.key) \o [k \in 1..f.depth |-> "src"] \o <<f.name>>

\* the allow lists of the configuration
AllowLists == {<<>>, <<Chars("All")>>}

\* str::contains
contains(s, t) ==
    \E k \in 1..(Len(s) - Len(t) + 1) : SubSeq(s, k, k + Len(t) - 1) = t

\* str::find: the byte offset of the first occurrence
find(s, t) ==
    IF contains(s, t)
    THEN Some((CHOOSE k \in 1..(Len(s) - Len(t) + 1) :
                  /\ SubSeq(s, k, k + Len(t) - 1) = t
                  /\ \A j \in 1..(k - 1) : SubSeq(s, j, j + Len(t) - 1) # t) - 1)
    ELSE None

\* Allow::from_str
from_str(s) == SelectSeq(AllowIter, LAMBDA a : contains(s, Chars(a)))

allowed_but_All(allowcfg) ==
    {from_str(allowcfg[k])[1] :
        k \in {j \in 1..Len(allowcfg) : from_str(allowcfg[j]) # <<>>}}
    \ {"All"}

\* check: the set `allowed` resolved from the configured strings
allowed(allowcfg) ==
    {from_str(allowcfg[k])[1] :
        k \in {j \in 1..Len(allowcfg) : from_str(allowcfg[j]) # <<>>}}

prohibited_every(allowcfg) == AllowIter

\* check: `prohibited`
prohibited(allowcfg) ==
    LET al == allowed(allowcfg)
    IN  SelectSeq(AllowIter, LAMBDA a : a \notin al)

\* check: `prohibited_str`, the (category, token) pairs to search for
RECURSIVE prohibited_str(_, _)
prohibited_str(cats, lang) ==
    IF cats = <<>> THEN <<>>
    ELSE LET toks == get_prohibited(Head(cats), lang)
         IN  [k \in 1..Len(toks) |-> [cat |-> Head(cats), tok |-> toks[k]]]
                 \o prohibited_str(Tail(cats), lang)

\* check: `illegal`, one (offset, category) per token that occurs
illegal(s, pstr) ==
    LET hits == SelectSeq(pstr, LAMBDA e : find(s, Chars(e.tok)) # None)
    IN  [k \in 1..Len(hits) |->
            [off |-> unwrap(find(s, Chars(hits[k].tok))), cat |-> hits[k].cat]]

\* check: `indents`, the byte length of every piece of s.split('\n')
RECURSIVE indents(_)
indents(s) ==
    IF FirstNL(s) = 0 THEN <<Len(s)>>
    ELSE <<FirstNL(s) - 1>> \o indents(SubSeq(s, FirstNL(s) + 1, Len(s)))

\* check: the loop `while it.next().unwrap() > &i.0 { idts += 1 }`:
\* the number of leading lines longer than the offset, None when the
\* iterator runs out (the unwrap panics)
idts(ind, off) ==
    IF \E k \in 1..Len(ind) : ind[k] <= off
    THEN Some((CHOOSE k \in 1..Len(ind) :
                  /\ ind[k] <= off
                  /\ \A j \in 1..(k - 1) : ind[j] > off) - 1)
    ELSE None

IllegalExpr(loc, p, violates) ==
    [content |-> None, violates |-> Some(violates), loc |-> loc, path |-> p]

CheckOk(val) == [tag |-> "Ok", val |-> val]
CheckErr == [tag |-> "Err", val |-> <<>>]
CheckPanic == [tag |-> "Panic", val |-> <<>>]

\* static_check::check, for the file `smp` found at path p
static_check(smp, p, allowcfg) ==
    IF smp.ext = None THEN CheckPanic
    ELSE IF "All" \in allowed(allowcfg) THEN CheckOk(<<>>)
    ELSE IF ~smp.readable THEN CheckErr
    ELSE LET s == smp.text
             ill == illegal(s, prohibited_str(prohibited(allowcfg),
                                               Language(unwrap(smp.ext))))
             ind == indents(s)
         IN  IF \E k \in 1..Len(ill) : idts(ind, ill[k].off) = None
             THEN CheckPanic
             ELSE CheckOk([k \in 1..Len(ill) |->
                    LET row == unwrap(idts(ind, ill[k].off))
                    IN  IllegalExpr(<<ill[k].off - ind[row + 1], row>>,
                                    p, ill[k].cat)])

\* static_check::check on a file of the tree
check(f, allowcfg) == static_check(Sample[f.name], path(f), allowcfg)

\* check_file: both checker types end in static_check::check; tabulated
\* over the files and allow lists of the model
check_file ==
    [x \in Files \X AllowLists |-> check(x[1], x[2])] @@ <<>>

\* some token of a prohibited category (for the file's language) occurs in
\* the file; tabulated like check_file
occurs ==
    [x \in Files \X AllowLists |->
        LET smp == Sample[x[1].name]
            pstr == IF smp.ext = None \/ "All" \in allowed(x[2]) THEN <<>>
                    ELSE prohibited_str(prohibited(x[2]),
                                        Language(unwrap(smp.ext)))
        IN  \E k \in 1..Len(pstr) : contains(smp.text, Chars(pstr[k].tok))]
    @@ <<>>

\* check_dirs: the filter on the entries WalkDir yields (a missing
\* extension counts as "java")
known == {name \in DOMAIN Sample :
            (IF Sample[name].ext = None THEN "java"
             ELSE unwrap(Sample[name].ext)) \in KNOWN_EXTENSIONS}

\* check_dirs: `entries`, the files to scan under the unpacked workspaces
entries == {f \in tree : f.key \in unpacked /\ f.name \in known}

\* changefile: semaphore.acquire()
changefile_acquire(f) ==
    /\ phase = "check_dirs"
    /\ task[f] = "spawned"
    /\ semaphore > 0
    /\ semaphore' = semaphore - 1
    /\ task' = [task EXCEPT ![f] = "permit"]
    /\ UNCHANGED <<judgeVars, report, unpackVars, checkVars, inputVars, resultsLock, findings, errs, joined,
                   phase, exec>>

\* mutant: the lock is taken although another task holds it
changefile_lock_shared(f) ==
    /\ phase = "check_dirs"
    /\ task[f] = "permit"
    /\ resultsLock' = Some(f)
    /\ task' = [task EXCEPT ![f] = "locked"]
    /\ UNCHANGED <<judgeVars, report, unpackVars, checkVars, inputVars, semaphore, findings, errs, joined,
                   phase, exec>>

\* changefile: results.lock()
changefile_lock(f) ==
    /\ phase = "check_dirs"
    /\ task[f] = "permit"
    /\ resultsLock = None
    /\ resultsLock' = Some(f)
    /\ task' = [task EXCEPT ![f] = "locked"]
    /\ UNCHANGED <<judgeVars, report, unpackVars, checkVars, inputVars, semaphore, findings, errs, joined,
                   phase, exec>>

\* changefile: check_file evaluated under the lock, then the insert, the
\* push to errs, or the panic; the guard and the permit are dropped
changefile_insert(f) ==
    /\ phase = "check_dirs"
    /\ task[f] = "locked"
    /\ LET r == check_file[f, allow]
       IN  /\ findings' = IF r.tag = "Ok" THEN (f :> r.val) @@ findings
                          ELSE findings
           /\ errs' = IF r.tag = "Err" THEN errs \cup {f} ELSE errs
           /\ task' = [task EXCEPT
                         ![f] = IF r.tag = "Panic" THEN "panicked" ELSE "done"]
    /\ resultsLock' = None
    /\ semaphore' = semaphore + 1
    /\ UNCHANGED <<judgeVars, report, unpackVars, checkVars, inputVars, joined, phase, exec>>

\* check_dirs: `h.await?` on the handle of a finished task; a panicked
\* task makes check_dirs, and with it run(), return the error
check_dirs_await(f) ==
    /\ phase = "check_dirs"
    /\ f \in entries \ joined
    /\ task[f] \in {"done", "panicked"}
    /\ IF task[f] = "panicked"
       THEN phase' = "aborted" /\ joined' = joined
       ELSE phase' = phase /\ joined' = joined \cup {f}
    /\ UNCHANGED <<judgeVars, report, unpackVars, checkVars, inputVars, task, semaphore, resultsLock,
                   findings, errs, exec>>

\* check_dirs: every handle awaited, the map is returned
check_dirs_return ==
    /\ phase = "check_dirs"
    /\ joined = entries
    /\ phase' = "checked"
    /\ UNCHANGED <<judgeVars, report, unpackVars, checkVars, inputVars, task, semaphore, resultsLock,
                   findings, errs, joined, exec>>

\* run: the entries of TEMPDIR: the workspaces that hold a file, and the
\* directories create_dir has made
read_dir ==
    {Workspace(f.key) : f \in tree}
    \cup {p \in created : Len(p) = Len(TEMPDIR) + 1}

\* run: check_result, the files with a non-empty list of findings
check_result == {f \in DOMAIN findings : findings[f] # <<>>}

\* run: `rem`, walked up until its parent is TEMPDIR
RECURSIVE rem(_)
rem(p) ==
    IF parent(p) = None THEN p
    ELSE IF unwrap(parent(p)) = TEMPDIR THEN p
    ELSE rem(unwrap(parent(p)))

remove_parent(e, flagged_paths) ==
    e \ {unwrap(parent(p)) : p \in flagged_paths}

\* run: exec.remove(&rem) for every flagged path
remove_flagged(e, flagged_paths) ==
    e \ {rem(p) : p \in flagged_paths}

\* run: from the result of check_dirs to the call of test_dirs
run_exec_always ==
    /\ phase = "checked"
    /\ exec' = remove_flagged(read_dir, {path(f) : f \in check_result})
    /\ phase' = "test_dirs"
    /\ UNCHANGED <<judgeVars, report, unpackVars, checkVars, inputVars, task, semaphore, resultsLock,
                   findings, errs, joined>>

\* run: from the result of check_dirs to the call of test_dirs
run_exec ==
    /\ phase = "checked"
    /\ exec' = remove_flagged(read_dir, {path(f) : f \in check_result})
    /\ phase' = IF exec' = {} THEN "none_passed" ELSE "test_dirs"
    /\ UNCHANGED <<judgeVars, report, unpackVars, checkVars, inputVars, task, semaphore, resultsLock,
                   findings, errs, joined>>

\* mutant: an element is collected twice
collect_again(set) ==
    {s \in [1..Cardinality(set) + 1 -> set] : Range(s) = set}

\* test_dirs: p.into_iter().collect::<Vec<PathBuf>>() of a HashSet, each
\* element once, in the order the set yields them
collect(set) ==
    {s \in [1..Cardinality(set) -> set] : Range(s) = set}

\* test_dirs called by run(): `v` is collected and one unit is spawned for
\* each of its elements
test_dirs_spawn ==
    /\ phase = "test_dirs"
    /\ phase' = "judging"
    /\ v' \in collect(exec)
    /\ UNCHANGED <<threads, testcases, outs, nested, faults, permits, pc, holds, i,
                   ret, out, proc, classFile, child, awaited, results, returned,
                   acquired, runLog, fed, timedOut, lastPoll, apiVars, dirVars,
                   allow, tree, unpacked, task, semaphore, resultsLock, findings,
                   errs, joined, exec, checkVars, target, report, unpackVars>>

\* test_dirs called by run() without test cases: the handles are awaited in
\* the order of `v` and each pushes the workspace with its list of outcomes,
\* which is empty; a unit that panicked makes test_dirs return the error
test_dirs_collect ==
    /\ phase = "judging"
    /\ testcases = <<>>
    /\ phase' = "judged"
    /\ \E n \in 0..Len(v) :
         /\ awaited' = n
         /\ results' = [k \in 1..n |-> [path |-> v[k], res |-> <<>>]] @@ <<>>
         /\ returned' = IF n = Len(v) THEN "Ok" ELSE "Err"
    /\ UNCHANGED <<cfgVars, faults, permits, pc, holds, i,
                   ret, out, proc, classFile, child,
                   acquired, runLog, fed, timedOut, lastPoll, apiVars, dirVars,
                   allow, tree, unpacked, task, semaphore, resultsLock, findings,
                   errs, joined, exec, checkVars, target, report, unpackVars>>

\* unpack: Ok(workspace), by the key of the workspace, or Err(error)
UnpackOk(key) == [tag |-> "Ok", val |-> key]
UnpackErr(err) == [tag |-> "Err", val |-> err]

\* run: `unpacked`, the workspaces of the Ok entries of a list of results
Oks(list) == {list[k].val : k \in {j \in 1..Len(list) : list[j].tag = "Ok"}}

\* a list of results with one Ok for each of the given workspaces
OkList(keys) ==
    CHOOSE s \in [1..Cardinality(keys) -> {UnpackOk(k) : k \in keys}] :
        Oks(s) = keys

\* run: from the return of unpack_dir to the call of check_dirs, which
\* spawns one changefile task per entry
run_unpacked ==
    /\ phase = "unpack_dir"
    /\ unpacked' = Oks(target)
    /\ phase' = IF target = <<>> THEN "no_target"
                ELSE IF unpacked' = {} THEN "none_unpacked"
                ELSE "check_dirs"
    /\ task' = [f \in {g \in tree : g.key \in unpacked' /\ g.name \in known}
                   |-> "spawned"]
    /\ UNCHANGED <<judgeVars, report, unpackVars, checkVars, threads, allow, tree, target,
                   semaphore, resultsLock, findings, errs, joined, exec>>

(***************************************************************************)
(* Pattern router: config.rs generate_regex and unpacker.rs.  File names   *)
(* and extensions are sequences of one-character strings; a naming format  *)
(* is the sequence of its placeholders and of the characters between them. *)
(***************************************************************************)
MaxName == 4

Letters ==
    {"a", "b", "c", "d", "e", "f", "g", "h", "i", "j", "k", "l", "m", "n", "o", "p",
     "q", "r", "s", "t", "u", "v", "w", "x", "y", "z", "M"}
Digits == {"0", "4", "7"}
WordChars == Letters \cup Digits \cup {"_"}

\* generate_regex: the placeholders
Placeholders ==
    {"{name}", "{alpha}", "{num}", "{alnum}", "{word}", "{filename}", "{id}",
     "{extension}"}

\* the group a placeholder is replaced by: its name, which is also its class
Group(placeholder) ==
    CASE placeholder = "{name}" -> "name"
      [] placeholder = "{alpha}" -> "alpha"
      [] placeholder = "{num}" -> "num"
      [] placeholder = "{alnum}" -> "alnum"
      [] placeholder = "{word}" -> "word"
      [] placeholder = "{filename}" -> "filename"
      [] placeholder = "{id}" -> "id"
      [] placeholder = "{extension}" -> "extension"

\* the texts a group takes: [a-zA-Z][a-zA-Z0-9_]*, [a-zA-Z]+, \d+,
\* [a-zA-Z0-9]+ and \w+
Accepts(group, s) ==
    /\ s # <<>>
    /\ CASE group = "name" ->
              /\ s[1] \in Letters
              /\ \A k \in 2..Len(s) : s[k] \in WordChars
         [] group = "alpha" -> \A k \in 1..Len(s) : s[k] \in Letters
         [] group \in {"num", "id"} -> \A k \in 1..Len(s) : s[k] \in Digits
         [] group = "alnum" -> \A k \in 1..Len(s) : s[k] \in Letters \cup Digits
         [] group \in {"word", "filename", "extension"} ->
              \A k \in 1..Len(s) : s[k] \in WordChars

RegexOk(items) == [tag |-> "Ok", val |-> items]
RegexErr == [tag |-> "Err", val |-> <<>>]

\* generate_regex: every placeholder becomes its named group, every dot is
\* escaped, the pattern is anchored; Regex::new refuses a group name that
\* occurs twice
generate_regex(fmt) ==
    IF \E j, k \in 1..Len(fmt) :
           j # k /\ fmt[j] = fmt[k] /\ fmt[j] \in Placeholders
    THEN RegexErr
    ELSE RegexOk([k \in 1..Len(fmt) |->
             IF fmt[k] \in Placeholders
             THEN [kind |-> "group", group |-> Group(fmt[k])]
             ELSE [kind |-> "char", group |-> fmt[k]]])

RECURSIVE captures(_, _)
\* Regex::captures on an anchored pattern: None, or the text of each group;
\* a group takes the longest text that lets the rest of the pattern match
captures(regex, s) ==
    IF regex = <<>> THEN (IF s = <<>> THEN Some(<<>>) ELSE None)
    ELSE LET item == Head(regex) IN
         IF item.kind = "char"
         THEN IF s # <<>> /\ Head(s) = item.group
              THEN captures(Tail(regex), Tail(s)) ELSE None
         ELSE LET lens == {n \in 1..Len(s) :
                              /\ Accepts(item.group, SubSeq(s, 1, n))
                              /\ captures(Tail(regex), SubSeq(s, n + 1, Len(s))) # None}
              IN  IF lens = {} THEN None
                  ELSE LET n == CHOOSE m \in lens : \A l \in lens : l <= m
                       IN  Some((item.group :> SubSeq(s, 1, n))
                                @@ unwrap(captures(Tail(regex),
                                                   SubSeq(s, n + 1, Len(s)))))

\* Captures::name
caps_name(caps, group) == IF group \in DOMAIN caps THEN Some(caps[group]) ELSE None

\* Path::extension of a file name
Path_extension(file_name) ==
    LET dots == {k \in 1..Len(file_name) : file_name[k] = "."} IN
    IF dots = {} \/ file_name = <<".", ".">> THEN None
    ELSE LET last == CHOOSE k \in dots : \A j \in dots : j <= k IN
         IF last = 1 THEN None
         ELSE Some(SubSeq(file_name, last + 1, Len(file_name)))

\* the characters of an extension
ExtChars(ext) ==
    CASE ext = "java" -> <<"j", "a", "v", "a">>
      [] ext = "jar" -> <<"j", "a", "r">>
      [] ext = "c" -> <<"c">>
      [] ext = "cpp" -> <<"c", "p", "p">>
      [] ext = "rs" -> <<"r", "s">>
      [] ext = "py" -> <<"p", "y">>
      [] ext = "tar" -> <<"t", "a", "r">>
      [] ext = "tar.gz" -> <<"t", "a", "r", ".", "g", "z">>
      [] ext = "gz" -> <<"g", "z">>
      [] ext = "zip" -> <<"z", "i", "p">>
      [] ext = "toml" -> <<"t", "o", "m", "l">>
      [] ext = "json" -> <<"j", "s", "o", "n">>

\* KNOWN_EXTENSIONS.contains(ext)
\* mutant: every extension is taken
known_extension_any(ext) == TRUE
known_extension(ext) == \E x \in KNOWN_EXTENSIONS : ExtChars(x) = ext

\* Orderby::Name => "name", Orderby::Id => "id"
OrderKey(by) == IF by = "Name" THEN "name" ELSE "id"

\* an entry of the target directory: its name, whether it is a regular file
\* or a directory, and what its content is (text, a zip archive naming its
\* members, a tar archive, or bytes that are no archive)
File(file_name, content) == [name |-> file_name, type |-> "file", content |-> content]
Dir(file_name) == [name |-> file_name, type |-> "dir", content |-> "none"]

\* the members of the zip archives of the model
Members == {<<"M", ".", "j", "a", "v", "a">>}

\* unpack, up to create_dir: the error it returns, or the workspace and
\* what is to be put into it
Routed(key, ext, caps) == [tag |-> "Ok", val |-> key, ext |-> ext, caps |-> caps]

route(entry, fmt, by) ==
    IF entry.type = "dir" THEN UnpackErr("Ignore")
    ELSE IF ~(Path_extension(entry.name) # None
              /\ known_extension(unwrap(Path_extension(entry.name))))
    THEN UnpackErr("Ignore")
    ELSE IF generate_regex(fmt).tag = "Err" THEN UnpackErr("Unknown")
    ELSE LET caps == captures(generate_regex(fmt).val, entry.name) IN
         IF caps = None THEN UnpackErr("Ignore")
         ELSE IF caps_name(unwrap(caps), OrderKey(by)) = None THEN UnpackErr("FileFormat")
         ELSE LET ext == IF caps_name(unwrap(caps), "extension") # None
                         THEN unwrap(caps_name(unwrap(caps), "extension"))
                         ELSE unwrap(Path_extension(entry.name))
              IN  IF ext \in {ExtChars("toml"), ExtChars("json")}
                  THEN UnpackErr("Ignore")
                  ELSE Routed(unwrap(caps_name(unwrap(caps), OrderKey(by))), ext,
                              unwrap(caps))

\* the name the single file is copied to:
\* caps.name("filename") or the key, + "." + the original extension
copy_name(entry, r) ==
    (IF caps_name(r.caps, "filename") # None THEN unwrap(caps_name(r.caps, "filename"))
     ELSE r.val)
    \o <<".">> \o unwrap(Path_extension(entry.name))

\* what the unpacker leaves alone
unpackFrame == <<judgeVars, threads, report, checkVars, allow, tree, unpacked, task,
                 semaphore, resultsLock, findings, errs, joined, exec>>

\* unpack_semaphore: s.acquire().await
unpack_semaphore(k) ==
    /\ handles[k].st = "spawned"
    /\ sp > 0
    /\ sp' = sp - 1
    /\ handles' = [handles EXCEPT ![k].st = "unpack"]
    /\ UNCHANGED <<unpackFrame, format, orderby, dir, created, wrote, target, phase>>

\* unpack: every return before the workspace exists, or create_dir(&target)
unpack(k) ==
    /\ handles[k].st = "unpack"
    /\ LET r == route(dir[k], format, orderby) IN
         IF r.tag = "Err"
         THEN /\ handles' = [handles EXCEPT ![k] = [st |-> "done", ret |-> r]]
              /\ sp' = sp + 1
              /\ UNCHANGED created
         ELSE /\ handles' = [handles EXCEPT ![k].st = "created"]
              /\ created' = created \cup {Workspace(r.val)}
              /\ UNCHANGED sp
    /\ UNCHANGED <<unpackFrame, format, orderby, dir, wrote, target, phase>>

\* File::create and tokio::fs::copy truncate a file that is already there
Write(paths, k) == [p \in DOMAIN wrote \cup paths |-> IF p \in paths THEN k ELSE wrote[p]]

\* unpack: unzip_to_dir for an archive extension, else copy; Ok(target);
\* unpack_semaphore then drops the permit
unpack_copy(k) ==
    /\ handles[k].st = "created"
    /\ LET r == route(dir[k], format, orderby) IN
         IF r.ext \in {ExtChars("zip"), ExtChars("tar"), ExtChars("tar.gz")}
         THEN IF dir[k].content = "zip"
              THEN /\ created' = created \cup {Workspace(r.val) \o <<m>> : m \in Members}
                   /\ wrote' = Write({Workspace(r.val) \o <<m>> : m \in Members}, k)
                   /\ handles' = [handles EXCEPT
                          ![k] = [st |-> "done", ret |-> UnpackOk(r.val)]]
              ELSE /\ handles' = [handles EXCEPT
                          ![k] = [st |-> "done", ret |-> UnpackErr("ZipProblem")]]
                   /\ UNCHANGED <<created, wrote>>
         ELSE /\ created' = created \cup {Workspace(r.val) \o <<copy_name(dir[k], r)>>}
              /\ wrote' = Write({Workspace(r.val) \o <<copy_name(dir[k], r)>>}, k)
              /\ handles' = [handles EXCEPT
                     ![k] = [st |-> "done", ret |-> UnpackOk(r.val)]]
    /\ sp' = sp + 1
    /\ UNCHANGED <<unpackFrame, format, orderby, dir, target, phase>>

\* mutant: a result that is an error is not pushed
unpack_dir_await_ok ==
    /\ phase = "unpacking"
    /\ \E k \in 1..Len(dir) :
         /\ k = Cardinality({j \in 1..Len(dir) : handles[j].st = "awaited"}) + 1
         /\ handles[k].st = "done"
         /\ handles' = [handles EXCEPT ![k].st = "awaited"]
         /\ target' = IF handles[k].ret.tag = "Ok"
                      THEN Append(target, handles[k].ret) ELSE target
    /\ UNCHANGED <<unpackFrame, format, orderby, dir, created, wrote, sp, phase>>

\* unpack_dir: for i in handles { if let Ok(result) = i.await { ret.push } }
unpack_dir_await ==
    /\ phase = "unpacking"
    /\ \E k \in 1..Len(dir) :
         /\ k = Cardinality({j \in 1..Len(dir) : handles[j].st = "awaited"}) + 1
         /\ handles[k].st = "done"
         /\ handles' = [handles EXCEPT ![k].st = "awaited"]
         /\ target' = Append(target, handles[k].ret)
    /\ UNCHANGED <<unpackFrame, format, orderby, dir, created, wrote, sp, phase>>

\* unpack_dir: ret
unpack_dir_return ==
    /\ phase = "unpacking"
    /\ \A k \in 1..Len(dir) : handles[k].st = "awaited"
    /\ phase' = "unpack_dir"
    /\ UNCHANGED <<unpackFrame, format, orderby, dir, handles, sp, created, wrote,
                   target>>

\* a run in which unpack_dir is not looked at
NoUnpack ==
    /\ format = <<>>
    /\ orderby = "Id"
    /\ dir = <<>>
    /\ handles = <<>>
    /\ sp = 0
    /\ created = {}
    /\ wrote = <<>>

(***************************************************************************)
(* Specifications                                                          *)
(***************************************************************************)
\* test_dirs up to the point where every unit is spawned
test_dirs_in(t, n, cases, texts, layouts, budget) ==
    /\ threads = t
    /\ v = [k \in 1..n |-> k]
    /\ testcases = cases
    /\ outs = texts
    /\ nested \in [1..n -> layouts]
    /\ faults = budget
    /\ permits = Semaphore_new(t)
    /\ pc = [w \in 1..n |-> "spawned"]
    /\ holds = [w \in 1..n |-> FALSE]
    /\ i = [w \in 1..n |-> 1]
    /\ ret = [w \in 1..n |-> <<>>]
    /\ out = [w \in 1..n |-> Pending]
    /\ proc = [w \in 1..n |-> NoProc]
    /\ classFile = [w \in 1..n |-> FALSE]
    /\ child = [w \in 1..n |-> [k \in 1..Len(cases) |-> NoChild]]
    /\ awaited = 0
    /\ results = <<>>
    /\ returned = "no"
    /\ acquired = [w \in 1..n |-> 0]
    /\ runLog = [w \in 1..n |-> <<>>]
    /\ fed = [w \in 1..n |-> {}]
    /\ timedOut = [w \in 1..n |-> {}]
    /\ lastPoll = [w \in 1..n |-> FALSE]
    /\ called = Called("new_from_venv", "Ok", "", <<>>)

\* test_dirs over workspaces whose content is left open
test_dirs_with(t, n, cases, texts, layouts, budget) ==
    /\ test_dirs_in(t, n, cases, texts, layouts, budget)
    /\ listing = [w \in 1..n |-> None]
    /\ config_entry = None

test_dirs(t, n, cases, texts, layouts, budget) ==
    test_dirs_with(t, n, Config_testcases(cases), texts, layouts, budget)

\* the trees of at most MaxFiles files
Trees == {{s[k] : k \in 1..MaxFiles} : s \in [1..MaxFiles -> Files]}

\* run() at the call of check_dirs(unpacked)
check_dirs(lists, trees) ==
    /\ allow \in lists
    /\ tree \in trees
    /\ unpacked \in (SUBSET {f.key : f \in tree}) \ {{}}
    /\ task = [f \in entries |-> "spawned"]
    /\ semaphore = threads
    /\ resultsLock = None
    /\ findings = <<>>
    /\ errs = {}
    /\ joined = {}
    /\ phase = "check_dirs"
    /\ exec = {}
    /\ file = None
    /\ verdict = None
    /\ report = None
    /\ NoUnpack
    /\ target = OkList(unpacked)

\* run() inside test_dirs(exec)
Screened ==
    /\ allow = <<>>
    /\ tree = {}
    /\ unpacked = {}
    /\ task = <<>>
    /\ semaphore = threads
    /\ resultsLock = None
    /\ findings = <<>>
    /\ errs = {}
    /\ joined = {}
    /\ phase = "test_dirs"
    /\ exec = Range(v)
    /\ file = None
    /\ verdict = None
    /\ report = None
    /\ NoUnpack
    /\ target = [k \in 1..Len(v) |-> UnpackOk(v[k])]

Init ==
    /\ \E t \in 1..MaxThreads, n \in 1..MaxWorkspaces :
           test_dirs(t, n, ConcCases, ConcOutputs, {FALSE}, MaxFaults)
    /\ Screened

InitCase ==
    /\ \E cases \in 0..MaxCases :
           test_dirs(1, 1, cases, AllOutputs, BOOLEAN, MaxCases)
    /\ Screened

Next ==
    \/ \E w \in Units : Acquire(w)
    \/ \E w \in Units : from_dir(w)
    \/ \E w \in Units : prepare(w)
    \/ \E w \in Units : run(w)
    \/ \E w \in Units : stdin(w)
    \/ \E w \in Units : wait_read_all(w)
    \/ \E w \in Units : timeout(w)
    \/ \E w \in Units : poll(w)
    \/ \E w \in Units : finish(w)
    \/ \E w \in Units : \E k \in 1..NumCases : child_exit(w, k)
    \/ await_handle
    \/ test_dirs_return
    \/ run_summarize

Spec == Init /\ [][Next]_vars

SpecCase == InitCase /\ [][Next]_vars

InitScreen ==
    /\ \E t \in 1..MaxThreads : test_dirs(t, 0, 0, ConcOutputs, {FALSE}, 0)
    /\ check_dirs(AllowLists, Trees)

NextScreen ==
    \/ \E f \in entries : changefile_acquire(f)
    \/ \E f \in entries : changefile_lock(f)
    \/ \E f \in entries : changefile_insert(f)
    \/ \E f \in entries : check_dirs_await(f)
    \/ check_dirs_return
    \/ run_exec

SpecScreen == InitScreen /\ [][NextScreen]_vars

(***************************************************************************)
(* One call of static_check::check, over every token of every table and    *)
(* over the allow lists that name one category.                            *)
(***************************************************************************)
MaxPad == 1

Categories == {AllowIter[k] : k \in 1..Len(AllowIter)}

\* the extensions of the languages that have token tables
Extensions == {"java", "py", "c", "cpp", "rs"}

\* every token of the tables of a language
Tokens(lang) ==
    UNION {{get_prohibited(c, lang)[k] :
               k \in 1..Len(get_prohibited(c, lang))} : c \in Categories}

\* n lines of other text
Pad(n) == [k \in 1..(2 * n) |-> IF k % 2 = 1 THEN "x" ELSE NL]

\* the files that hold one token, on its own line after at most MaxPad
\* other lines, with and without a line terminator; and files without any
Texts(lang) ==
    {Pad(n) \o Chars(t) \o e :
        n \in 0..MaxPad, t \in Tokens(lang), e \in {<<>>, <<NL>>}}
    \cup {Pad(MaxPad)}

FileName(x) ==
    CASE x = "java" -> "Main.java"
      [] x = "py" -> "main.py"
      [] x = "c" -> "main.c"
      [] x = "cpp" -> "main.cpp"
      [] x = "rs" -> "main.rs"

CheckFiles ==
    UNION {{[name |-> FileName(x), ext |-> Some(x), readable |-> TRUE,
             text |-> t] : t \in Texts(Language(x))} : x \in Extensions}
    \cup {[name |-> "main.py", ext |-> Some("py"), readable |-> FALSE,
           text |-> <<>>]}

\* a configured string that contains no capability name
Bogus == <<"n", "o", "n", "e">>

CheckAllowLists ==
    {<<>>, <<Bogus>>, <<Bogus, Chars("FileIO")>>,
     <<Chars("Eval"), Chars("Exec")>>}
    \cup {<<Chars(c)>> : c \in Categories}

\* a changefile task about to call check_file
InitCheck ==
    /\ test_dirs(1, 0, 0, ConcOutputs, {FALSE}, 0)
    /\ allow \in CheckAllowLists
    /\ file \in {Some(f) : f \in CheckFiles}
    /\ verdict = None
    /\ report = None
    /\ NoUnpack
    /\ tree = {}
    /\ unpacked = {"alice"}
    /\ target = <<UnpackOk("alice")>>
    /\ task = <<>>
    /\ semaphore = 0
    /\ resultsLock = None
    /\ findings = <<>>
    /\ errs = {}
    /\ joined = {}
    /\ phase = "check_dirs"
    /\ exec = {}

\* check_file: the call of static_check::check
scan ==
    /\ file # None
    /\ verdict = None
    /\ verdict' = Some(static_check(unwrap(file),
                                     Workspace("alice") \o <<unwrap(file).name>>,
                                     allow))
    /\ UNCHANGED <<judgeVars, report, unpackVars, inputVars, task, semaphore, resultsLock,
                   findings, errs, joined, phase, exec, file>>

NextCheck == scan

SpecCheck == InitCheck /\ [][NextCheck]_vars

(***************************************************************************)
(* run() from the return of unpack_dir to the call of test_dirs, with one  *)
(* file in every unpacked workspace.                                       *)
(***************************************************************************)
MaxEntries == 2

UnpackResults ==
    {UnpackOk(k) : k \in Keys}
    \cup {UnpackErr("Ignore"), UnpackErr("FileFormat"), UnpackErr("ZipProblem")}

\* unpack: the workspace directories that the unpacks of a list of results
\* may have left: create_dir precedes unzip_to_dir, which writes the members
\* of the archive one by one and returns at the first that fails, so each
\* ZipProblem can leave one directory, empty or with the members written
LeftBehind(list) ==
    {ds \in SUBSET {Workspace(k) : k \in Keys \ Oks(list)} :
        Cardinality(ds) <= Cardinality({j \in 1..Len(list) :
                                          list[j] = UnpackErr("ZipProblem")})}

InitRun ==
    /\ \E t \in 1..MaxThreads : test_dirs(t, 0, 0, ConcOutputs, {FALSE}, 0)
    /\ target \in UNION {[1..n -> UnpackResults] : n \in 0..MaxEntries}
    /\ created \in LeftBehind(target)
    /\ tree \in {{[key |-> k, depth |-> 0, name |-> nm[k]] : k \in DOMAIN nm} :
                    nm \in UNION {[Oks(target) \cup ks -> {"call.py", "ok.py"}] :
                                    ks \in SUBSET {k \in Keys : Workspace(k) \in created}}}
    /\ allow = <<>>
    /\ unpacked = {}
    /\ task = <<>>
    /\ semaphore = threads
    /\ resultsLock = None
    /\ findings = <<>>
    /\ errs = {}
    /\ joined = {}
    /\ phase = "unpack_dir"
    /\ exec = {}
    /\ file = None
    /\ verdict = None
    /\ report = None
    /\ format = <<>>
    /\ orderby = "Id"
    /\ dir = <<>>
    /\ handles = <<>>
    /\ sp = 0
    /\ wrote = <<>>

NextRun ==
    \/ run_unpacked
    \/ \E f \in entries : changefile_acquire(f)
    \/ \E f \in entries : changefile_lock(f)
    \/ \E f \in entries : changefile_insert(f)
    \/ \E f \in entries : check_dirs_await(f)
    \/ check_dirs_return
    \/ run_exec
    \/ test_dirs_spawn
    \/ test_dirs_collect

SpecRun == InitRun /\ [][NextRun]_vars

(***************************************************************************)
(* unpack_dir over a directory of a few entries, and over one entry with   *)
(* every short name.                                                       *)
(***************************************************************************)
Formats ==
    {<<"{id}", ".", "{extension}">>,
     <<"{name}", "_", "{id}", ".", "{extension}">>,
     <<"{name}", ".", "{extension}">>,
     <<"{id}", "_", "{filename}", ".", "{extension}">>,
     <<"{id}", "_", "{id}", ".", "{extension}">>,
     <<"{id}", ".", "{extension}", ".", "c">>,
     <<"{name}", "_", "{num}", "_", "{id}", "_", "{filename}", ".", "{extension}">>}

NameChars == {"c", "4", "_", "."}

\* every name of at most MaxName characters that read_dir can yield
Names == UNION {[1..n -> NameChars] : n \in 1..MaxName} \ {<<".">>, <<".", ".">>}

RouteEntries ==
    {File(n, "text") : n \in Names}
    \cup {File(<<"4", ".", "t", "a", "r">>, "tar"),
          File(<<"4", ".", "z", "i", "p">>, "zip"),
          File(<<"4", ".", "z", "i", "p">>, "text"),
          File(<<"0", "0", "7", ".", "p", "y">>, "text"),
          File(<<"4", ".", "j", "s", "o", "n", ".", "c">>, "text"),
          File(<<"c", "_", "4", "_", "7", "_", "M", ".", "j", "a", "v", "a">>, "text"),
          Dir(<<"4", ".", "c">>)}

BatchFormats ==
    {<<"{id}", ".", "{extension}">>, <<"{name}", ".", "{extension}">>,
     <<"{name}", "_", "{id}", ".", "{extension}">>}

BatchEntries ==
    {File(<<"4", ".", "c">>, "text"),
     File(<<"c", ".", "c">>, "text"),
     File(<<"c", ".", "4">>, "text"),
     File(<<"4", ".", "z", "i", "p">>, "zip"),
     File(<<"a", "_", "4", ".", "c">>, "text"),
     File(<<"c", "_", "4", ".", "c">>, "text"),
     Dir(<<"7", ".", "c">>)}

\* the listings of a directory: its entries in the order read_dir yields
Listings(set, n) ==
    {s \in UNION {[1..m -> set] : m \in 0..n} :
        \A j, k \in 1..Len(s) : j # k => s[j].name # s[k].name}

\* run() at the call of unpack_dir(CONFIG.target): one task per entry
unpack_dir(formats, listings, t) ==
    /\ test_dirs(t, 0, 0, ConcOutputs, {FALSE}, 0)
    /\ format \in formats
    /\ orderby \in {"Name", "Id"}
    /\ dir \in listings
    /\ handles = [k \in 1..Len(dir) |-> [st |-> "spawned", ret |-> None]]
    /\ sp = Max(t, 1)
    /\ created = {}
    /\ wrote = <<>>
    /\ target = <<>>
    /\ phase = "unpacking"
    /\ allow = <<>>
    /\ tree = {}
    /\ unpacked = {}
    /\ task = <<>>
    /\ semaphore = threads
    /\ resultsLock = None
    /\ findings = <<>>
    /\ errs = {}
    /\ joined = {}
    /\ exec = {}
    /\ file = None
    /\ verdict = None
    /\ report = None

InitUnpack ==
    \E t \in 1..MaxThreads : unpack_dir(BatchFormats, Listings(BatchEntries, MaxEntries), t)

InitRoute == unpack_dir(Formats, {<<e>> : e \in RouteEntries}, 1)

NextUnpack ==
    \/ \E k \in 1..Len(dir) : unpack_semaphore(k)
    \/ \E k \in 1..Len(dir) : unpack(k)
    \/ \E k \in 1..Len(dir) : unpack_copy(k)
    \/ unpack_dir_await
    \/ unpack_dir_return

SpecUnpack == InitUnpack /\ [][NextUnpack]_vars

SpecRoute == InitRoute /\ [][NextUnpack]_vars

(***************************************************************************)
(* The judge harness given programs that never end by themselves.  The     *)
(* tokio runtime polls every task that is ready, the timer of              *)
(* tokio::time::timeout fires, and the kernel ends a process that was sent *)
(* SIGKILL: each of these steps is weakly fair.                            *)
(***************************************************************************)
\* an input that does not fit into the pipe
LongInput == [k \in 1..PipeCapacity + 1 |-> "3"]

\* the configured cases, and the same cases with long inputs
HangCases ==
    {Config_testcases(ConcCases),
     [k \in 1..ConcCases |-> [TestCase(k) EXCEPT !.input = LongInput]]}

InitHang ==
    /\ \E t \in 1..MaxThreads, n \in 1..MaxWorkspaces, cases \in HangCases :
           test_dirs_with(t, n, cases, ConcOutputs, {FALSE}, MaxFaults)
    /\ Screened

Unit(w) ==
    \/ Acquire(w)
    \/ from_dir(w)
    \/ prepare(w)
    \/ run(w)
    \/ stdin(w)
    \/ timeout(w)
    \/ poll(w)
    \/ finish(w)

NextHang ==
    \/ \E w \in Units : Acquire(w)
    \/ \E w \in Units : from_dir(w)
    \/ \E w \in Units : prepare(w)
    \/ \E w \in Units : run(w)
    \/ \E w \in Units : stdin(w)
    \/ \E w \in Units : timeout(w)
    \/ \E w \in Units : poll(w)
    \/ \E w \in Units : finish(w)
    \/ \E w \in Units : \E k \in 1..NumCases : child_killed(w, k)
    \/ await_handle
    \/ test_dirs_return

Fairness ==
    /\ \A w \in 1..MaxWorkspaces : WF_vars(IF w \in Units THEN Unit(w) ELSE FALSE)
    /\ \A w \in 1..MaxWorkspaces : \A k \in 1..ConcCases :
           WF_vars(IF w \in Units /\ k <= NumCases THEN child_killed(w, k) ELSE FALSE)
    /\ WF_vars(await_handle)
    /\ WF_vars(test_dirs_return)

SpecHang == InitHang /\ [][NextHang]_vars /\ Fairness

(***************************************************************************)
(* One runner of a workspace without class files, its methods called in    *)
(* any order, run() at most MaxCases times.                                *)
(***************************************************************************)
InitRunner ==
    /\ test_dirs(1, 1, MaxCases, ConcOutputs, {FALSE}, MaxFaults)
    /\ Screened

NextRunner ==
    \/ \E w \in Units : JavaRunner_run(w)
    \/ \E w \in Units : JavaRunner_stdin(w)
    \/ \E w \in Units : JavaRunner_read_all(w)
    \/ \E w \in Units : JavaRunner_signal(w)
    \/ \E w \in Units : JavaRunner_runtime(w)
    \/ \E w \in Units : JavaRunner_wait(w)
    \/ \E w \in Units : JavaRunner_running(w)
    \/ \E w \in Units : \E k \in 1..NumCases : child_exit(w, k)

SpecRunner == InitRunner /\ [][NextRunner]_vars

(***************************************************************************)
(* test_dirs over one workspace whose content is given: what from_dir      *)
(* resolves as the entry point.                                            *)
(***************************************************************************)
DirEntries == {MainJava, SolJava, NotesTxt, Readme, SrcDir, SrcDirMain}

\* the workspace of the key "4" and that of the key "romain"
Roots == {<<"4">>, <<"r", "o", "m", "a", "i", "n">>}

WorkspaceListings ==
    {[root |-> r, entries |-> es] :
        r \in Roots,
        es \in {s \in UNION {[1..n -> DirEntries] : n \in 0..MaxListing} :
                   \A j, k \in 1..Len(s) : j # k => s[j].name # s[k].name}}

ConfigEntries == {None, Some(<<"S", "o", "l">>)}

InitResolve ==
    /\ test_dirs_in(1, 1, Config_testcases(ConcCases), ConcOutputs, {FALSE}, 0)
    /\ listing \in [1..1 -> {Some(l) : l \in WorkspaceListings}]
    /\ config_entry \in ConfigEntries
    /\ Screened

SpecResolve == InitResolve /\ [][Next]_vars

(***************************************************************************)
(* Properties of the judge harness                                         *)
(***************************************************************************)
\* the positions between acquire and release: resolving, compiling, running
InFlight(w) == pc[w] \in {"from_dir", "prepare", "loop", "stdin", "write_all", "wait",
                          "poll"}

PermitHolders == {w \in Units : holds[w] \/ InFlight(w)}

AliveChildren ==
    {c \in Units \X (1..NumCases) : child[c[1]][c[2]].st = "alive"}

Recorded(w, k) == k <= Len(ret[w])

\* C1: at every moment the number of judge units between acquire and release
\* is at most max(threads, 1), whatever the number of workspaces
C1_PermitBound == Cardinality(PermitHolders) <= Max(threads, 1)

\* every permit is taken while another unit is still waiting for one
C1_Witness ==
    /\ Cardinality(PermitHolders) = Max(threads, 1)
    /\ \E w \in Units : pc[w] = "spawned"
    /\ \E w \in Units : pc[w] = "wait"

\* C2: never more than `threads` children started by run() are alive at the
\* same time, cases that ended in a stdin error included
C2_ChildBound == Cardinality(AliveChildren) <= threads

\* C3: a case whose timeout elapsed with the child still running is recorded
\* as Error, code 9, "Timed out.", whatever the child printed
C3_TimedOutIsError ==
    \A w \in Units : \A k \in timedOut[w] :
        Recorded(w, k) =>
            /\ ret[w][k].kind = "Error"
            /\ ret[w][k].code = 9
            /\ ret[w][k].reason = "Timed out."

\* a timed-out case is recorded although the child printed the expected text
C3_Witness ==
    \E w \in Units : \E k \in timedOut[w] :
        /\ Recorded(w, k)
        /\ child[w][k].output = testcases[k].expected
        /\ child[w][k].output # <<>>

\* the result of a case whose child ran to completion and was read
Judged(w, k) ==
    IF Lines(child[w][k].output) = Lines(testcases[k].expected)
    THEN /\ ret[w][k].kind = "Correct"
         /\ ret[w][k].output = child[w][k].output
    ELSE /\ ret[w][k].kind = "Wrong"
         /\ ret[w][k].output = child[w][k].output
         /\ ret[w][k].diff = Diff_compute(testcases[k].expected, child[w][k].output)
         /\ ret[w][k].diff.additions + ret[w][k].diff.removals > 0

\* the child of case k ended by itself, not killed by the harness
EndedByItself(w, k) ==
    /\ child[w][k].st \in {"exited", "reaped"}
    /\ ~child[w][k].killed

\* C4 as stated: a child that ends by itself before the timeout is Correct
\* iff its output has the expected lines, otherwise Wrong, and never Error
C4_AsStated ==
    \A w \in Units : \A k \in 1..NumCases :
        (Recorded(w, k) /\ EndedByItself(w, k)) => Judged(w, k)

\* C4 amended: when the input was written to the child's stdin and the child
\* ended before the timeout, the case is Correct iff the captured lines equal
\* the expected lines, otherwise Wrong with the output and the diff; never Error
C4_FedAndCompleted ==
    \A w \in Units : \A k \in fed[w] :
        (Recorded(w, k) /\ k \notin timedOut[w]) =>
            /\ child[w][k].st = "reaped"
            /\ Judged(w, k)

\* a case is Wrong only because the last line lacks its terminator
C4_Witness ==
    \E w \in Units : \E k \in fed[w] :
        /\ Recorded(w, k)
        /\ k \notin timedOut[w]
        /\ ret[w][k].kind = "Wrong"
        /\ ret[w][k].output = <<"7">>
        /\ testcases[k].expected = <<"7", NL>>

\* C5: every returned outcome list has one outcome per configured case, and
\* the outcome at index k is the result of case k, on every path
C5_OnePerCaseInOrder ==
    /\ \A e \in Range(results) :
         /\ Len(e.res) = NumCases
         /\ \A k \in 1..NumCases :
              e.res[k].kind \in {"Correct", "Wrong"} => e.res[k].case = k
         /\ out[e.path].tag = "Ok" =>
              /\ e.res = ret[e.path]
              /\ runLog[e.path] = [k \in 1..NumCases |-> k]
         /\ out[e.path].tag # "Ok" => e.res = errors(out[e.path])
    /\ returned = "Ok" =>
         /\ Len(results) = Len(v)
         /\ \A k \in 1..Len(v) : results[k].path = v[k]

\* a list of two different outcomes was returned
C5_Witness ==
    /\ returned = "Ok"
    /\ \E e \in Range(results) :
         /\ Len(e.res) >= 2
         /\ e.res[1].kind = "Wrong"
         /\ e.res[2].kind = "Correct"

\* C6: a timeout on case n does not end the submission: case n+1 and every
\* later case is still spawned and judged
C6_ContinuesAfterTimeout ==
    \A w \in Units : \A n \in timedOut[w] :
        (Recorded(w, n) /\ n < NumCases) =>
            /\ pc[w] = "returned" =>
                 /\ out[w].tag = "Ok"
                 /\ Len(ret[w]) = NumCases
                 /\ \A m \in (n + 1)..NumCases : m \in Range(runLog[w])
            /\ pc[w] # "returned" => InFlight(w) /\ i[w] > n
            /\ \A m \in (n + 1)..Len(ret[w]) : m \in Range(runLog[w])

\* case n timed out and case n+1 was judged Correct
C6_Witness ==
    \E w \in Units : \E n \in timedOut[w] :
        /\ Recorded(w, n + 1)
        /\ ret[w][n].reason = "Timed out."
        /\ ret[w][n + 1].kind = "Correct"

C8_OnePermitHeldThroughout ==
    \A w \in Units :
        /\ acquired[w] <= 1
        /\ pc[w] = "spawned" => acquired[w] = 0 /\ ~holds[w]
        /\ InFlight(w) => acquired[w] = 1 /\ holds[w]
        /\ pc[w] = "returned" => ~holds[w]
        /\ (pc[w] = "returned" /\ out[w].tag = "Ok") => Len(ret[w]) = NumCases
        /\ permits + Cardinality({u \in Units : holds[u]}) = Max(threads, 1)

\* the unit is between two test cases and still owns its permit
C8_Witness ==
    \E w \in Units :
        /\ pc[w] = "loop"
        /\ Len(ret[w]) >= 1
        /\ i[w] <= NumCases
        /\ holds[w]

(***************************************************************************)
(* Properties of the security screen                                       *)
(***************************************************************************)
\* the scanned files with at least one finding
Flagged == {f \in DOMAIN findings : findings[f] # <<>>}

\* C9: when run() calls test_dirs, no workspace that holds a file with at
\* least one finding, at whatever depth below the workspace root, is in
\* the set passed to it
C9_FlaggedWorkspaceExcluded ==
    phase = "test_dirs" => \A f \in Flagged : Workspace(f.key) \notin exec

C9_Witness ==
    /\ phase = "test_dirs"
    /\ exec # {}
    /\ \E f \in Flagged : f.depth >= 1 /\ Workspace(f.key) \notin exec

\* C10: a scanned file in which a token of a prohibited category occurs
\* has at least one finding once its scan has ended, and its workspace is
\* not in the set passed to test_dirs
C10_TokenYieldsFinding ==
    \A f \in entries :
        occurs[f, allow] =>
            /\ task[f] \in {"done", "panicked"} => f \in Flagged
            /\ phase = "test_dirs" => Workspace(f.key) \notin exec
(***************************************************************************)
(* Properties of static_check::check                                       *)
(***************************************************************************)
\* the file handed to check, and what check returned
Scanned == unwrap(file)
Returned == unwrap(verdict)

\* the token t occurs in the scanned file
Occurs(t) == contains(Scanned.text, Chars(t))

\* C11: with the allow list [All], check returns no finding for a file of
\* any language with token tables, whatever the file holds
C11_AllowAllFindsNothing ==
    (verdict # None /\ allow = <<Chars("All")>>) => Returned = CheckOk(<<>>)

C11_Witness ==
    /\ verdict # None
    /\ allow = <<Chars("All")>>
    /\ Occurs("os.system")
    /\ Scanned.ext = Some("py")
    /\ Returned = CheckOk(<<>>)
\* the capability a configured string stands for: the first name, in
\* declaration order, that the string contains
Stands(s, c) ==
    \E k \in 1..Len(AllowIter) :
        /\ AllowIter[k] = c
        /\ contains(s, Chars(c))
        /\ \A j \in 1..(k - 1) : ~contains(s, Chars(AllowIter[j]))

\* the allow-set the configured list stands for
Resolved ==
    {c \in Categories : \E k \in 1..Len(allow) : Stands(allow[k], c)}

\* the configured strings that contain a capability name
Resolvable ==
    SelectSeq(allow, LAMBDA s : \E c \in Categories : contains(s, Chars(c)))

ScannedPath == Workspace("alice") \o <<Scanned.name>>

\* the table of category c for the language of the scanned file
Table(c) ==
    LET toks == get_prohibited(c, Language(unwrap(Scanned.ext)))
    IN  {toks[k] : k \in 1..Len(toks)}

\* the categories named by the findings check returned
Violated == {unwrap(Returned.val[k].violates) : k \in 1..Len(Returned.val)}

\* C12: when the allow list does not stand for All, the categories whose
\* tokens are reported are exactly those outside the resolved allow-set
\* with a token in the file, and a configured string that names no
\* capability changes nothing about the outcome of the scan
C12_SearchedIsComplement ==
    (verdict # None /\ "All" \notin Resolved) =>
        /\ Returned.tag = "Ok" =>
               Violated = {c \in Categories \ Resolved :
                              \E t \in Table(c) : Occurs(t)}
        /\ Returned = static_check(Scanned, ScannedPath, Resolvable)

C12_Witness ==
    /\ verdict # None
    /\ allow = <<Bogus, Chars("FileIO")>>
    /\ Occurs("open(")
    /\ Returned.tag = "Ok"
    /\ Violated = {"All"}

\* C13: with an allow list that names one category, a file whose only
\* tokens are tokens of that category's table gets no finding
C13_AllowedCategoryPermitted ==
    \A c \in Categories :
        (/\ verdict # None
         /\ allow = <<Chars(c)>>
         /\ Returned.tag = "Ok"
         /\ \A d \in Categories : \A t \in Table(d) :
                Occurs(t) => t \in Table(c))
        => Returned.val = <<>>
(***************************************************************************)
(* Properties of the judge harness, continued                              *)
(***************************************************************************)
\* the outcome lists test_dirs has collected for workspace w
ResultsOf(w) == {results[k].res : k \in {j \in 1..Len(results) : results[j].path = w}}

\* C14: when prepare() fails for a unit, run() is never invoked for it and
\* its result is one Error per configured test case, each with the exit
\* code of the compiler (-1 when there is none) and the reason of the
\* failure
C14_PrepareFailureUniform ==
    \A w \in Units :
        (out[w].tag = "CE" /\ out[w] \in PrepareOutcomes) =>
            /\ runLog[w] = <<>>
            /\ \A r \in ResultsOf(w) :
                   /\ Len(r) = NumCases
                   /\ \A k \in 1..Len(r) :
                          r[k] = Error(IF out[w].code = None THEN -1
                                       ELSE out[w].code[1], out[w].reason)

C14_Witness ==
    /\ NumCases = 2
    /\ out[1] = CE(Some(1), "javac stderr")
    /\ ResultsOf(1) = {<<Error(1, "javac stderr"), Error(1, "javac stderr")>>}
\* C15: whatever fails inside one unit, once test_dirs has returned it has
\* returned Ok with an outcome list for every other workspace
C15_SiblingFailureContained ==
    returned # "no" =>
        \A w \in Units :
            out[w].tag # "Panic" => (returned = "Ok" /\ ResultsOf(w) # {})
\* C17: with programs that never end by themselves, every case that was
\* started and fed ends as Error "Timed out.", every unit that holds a
\* permit gives it back, every queued unit starts, and test_dirs returns
C17_HangingProgramTimesOut ==
    /\ \A w \in 1..MaxWorkspaces : \A k \in 1..ConcCases :
           (IF w \in Units THEN k \in fed[w] ELSE FALSE)
               ~> (IF w \in Units /\ Len(ret[w]) >= k
                   THEN ret[w][k] = TimedOutResult ELSE FALSE)
    /\ \A w \in 1..MaxWorkspaces :
           (IF w \in Units THEN holds[w] ELSE FALSE)
               ~> (IF w \in Units THEN pc[w] = "returned" /\ ~holds[w] ELSE FALSE)
    /\ \A w \in 1..MaxWorkspaces :
           (IF w \in Units THEN pc[w] = "spawned" ELSE FALSE)
               ~> (IF w \in Units THEN pc[w] # "spawned" ELSE FALSE)
    /\ <>(returned # "no")

C17_Witness ==
    /\ returned = "Ok"
    /\ Len(v) = 2
    /\ threads = 1
    /\ \A w \in Units : fed[w] = 1..NumCases /\ timedOut[w] = 1..NumCases
    /\ \A w \in Units : \A k \in 1..NumCases : ret[w][k] = TimedOutResult

\* the points of the cases of workspace w that ended Correct
CorrectPoints(w) ==
    Sum([k \in 1..NumCases |->
            IF k <= Len(ret[w]) /\ ret[w][k].kind = "Correct" /\ out[w].tag = "Ok"
            THEN testcases[k].points ELSE 0])

\* C18: the points awarded to a workspace are the sum of the points of its
\* Correct cases, and never more than the sum of all configured points
C18_PointsAreCorrectCases ==
    report # None =>
        \A k \in 1..Len(unwrap(report).submissions) :
            LET s == unwrap(report).submissions[k] IN
                /\ s.points_awarded = CorrectPoints(s.name)
                /\ s.points_awarded <= Sum([j \in 1..NumCases |-> TestCase(j).points])
                /\ unwrap(report).scoreboard[k] = <<s.name, s.points_awarded>>

C18_Witness ==
    /\ report # None
    /\ NumCases = 2
    /\ Len(ret[1]) = 2
    /\ ret[1][1].kind = "Wrong"
    /\ ret[1][2].kind = "Correct"
    /\ unwrap(report).submissions[1].points_awarded = 20

(***************************************************************************)
(* Properties of run()                                                     *)
(***************************************************************************)
\* C16: test_dirs is never called with an empty set; when no entry was
\* unpacked the run ends before the screen, and when the screen leaves no
\* workspace it ends before judging
C16_NeverJudgesEmptySet ==
    /\ phase = "test_dirs" => exec # {}
    /\ Oks(target) = {} =>
           /\ phase \in {"unpack_dir", "no_target", "none_unpacked"}
           /\ task = <<>>
    /\ phase = "none_passed" => exec = {}

C16_Witness ==
    /\ phase = "none_passed"
    /\ Oks(target) # {}
    /\ exec = {}
(***************************************************************************)
(* Properties of the pattern router                                        *)
(***************************************************************************)
\* the captures of an entry's name under the configured format
Caps(entry) ==
    IF generate_regex(format).tag = "Err" THEN None
    ELSE captures(generate_regex(format).val, entry.name)

\* the name matches the pattern and the capture lacks the ordering key
LacksKey(entry) ==
    /\ entry.type = "file"
    /\ Caps(entry) # None
    /\ OrderKey(orderby) \notin DOMAIN unwrap(Caps(entry))

KnownFile(entry) ==
    /\ entry.type = "file"
    /\ \E x \in KNOWN_EXTENSIONS : Path_extension(entry.name) = Some(ExtChars(x))

\* what unpacking the entry by itself returns and creates
Alone(entry) ==
    LET r == route(entry, format, orderby) IN
    IF r.tag = "Err" THEN [ret |-> r, made |-> {}]
    ELSE IF r.ext \in {ExtChars("zip"), ExtChars("tar"), ExtChars("tar.gz")}
    THEN IF entry.content = "zip"
         THEN [ret |-> UnpackOk(r.val),
               made |-> {Workspace(r.val)} \cup {Workspace(r.val) \o <<m>> : m \in Members}]
         ELSE [ret |-> UnpackErr("ZipProblem"), made |-> {Workspace(r.val)}]
    ELSE [ret |-> UnpackOk(r.val),
          made |-> {Workspace(r.val), Workspace(r.val) \o <<copy_name(entry, r)>>}]

\* C19 as stated: every file whose name matches the pattern without the
\* ordering key yields FileFormat
C19_AsStated ==
    phase = "unpack_dir" =>
        /\ Len(target) = Len(dir)
        /\ \A k \in 1..Len(dir) :
               LacksKey(dir[k]) => target[k] = UnpackErr("FileFormat")

\* C19: a regular file with a known extension whose name matches the
\* pattern without the ordering key yields FileFormat and creates nothing;
\* unpack_dir returns one result per entry, in the order of the entries,
\* and every other entry is routed as it is when unpacked by itself
C19_MissingKeyIsFileFormat ==
    phase = "unpack_dir" =>
        /\ Len(target) = Len(dir)
        /\ \A k \in 1..Len(dir) :
               IF LacksKey(dir[k]) /\ KnownFile(dir[k])
               THEN target[k] = UnpackErr("FileFormat")
               ELSE target[k] = Alone(dir[k]).ret
        /\ created = UNION {Alone(dir[k]).made :
                               k \in {j \in 1..Len(dir) : ~LacksKey(dir[j])}}

C19_Witness ==
    /\ phase = "unpack_dir"
    /\ Len(dir) = 2
    /\ LacksKey(dir[1]) /\ KnownFile(dir[1])
    /\ target[1] = UnpackErr("FileFormat")
    /\ dir[2].type = "dir"
    /\ target[2] = UnpackErr("Ignore")
    /\ created = {}

\* the extension unpack resolves for a file whose name matches
Resolved_ext(entry) ==
    IF "extension" \in DOMAIN unwrap(Caps(entry))
    THEN unwrap(Caps(entry))["extension"]
    ELSE unwrap(Path_extension(entry.name))

\* a regular file with a known extension that is no configuration file and
\* whose content is what its extension says
Candidate(entry) ==
    /\ KnownFile(entry)
    /\ Resolved_ext(entry) \notin {ExtChars("toml"), ExtChars("json")}
    /\ entry.content = (CASE Resolved_ext(entry) = ExtChars("zip") -> "zip"
                          [] Resolved_ext(entry) = ExtChars("tar") -> "tar"
                          [] OTHER -> "text")

\* C20: with {id} and {extension} in the format and id as the ordering key,
\* a candidate file whose name matches is routed, and its workspace is
\* TEMPDIR/<the text captured as id>
C20_MatchingNameRouted ==
    (/\ phase = "unpack_dir"
     /\ Len(dir) = 1
     /\ orderby = "Id"
     /\ \E j, k \in 1..Len(format) : format[j] = "{id}" /\ format[k] = "{extension}")
    => \A e \in {dir[1]} :
           (Caps(e) # None /\ Candidate(e)) =>
               /\ target = <<UnpackOk(unwrap(Caps(e))["id"])>>
               /\ TEMPDIR \o <<unwrap(Caps(e))["id"]>> \in created
\* the files entry k has put below TEMPDIR
Placed(k) == {p \in Alone(dir[k]).made : Len(p) > Len(TEMPDIR) + 1}

\* C21: a file that an entry whose unpack returned Ok has placed keeps that
\* entry's bytes, unless the unpack that replaced it returned an error
C21_NoSilentOverwrite ==
    \A j \in 1..Len(dir) :
        (handles[j].ret # None /\ handles[j].ret.tag = "Ok") =>
            \A p \in Placed(j) :
                \/ wrote[p] = j
                \/ (handles[wrote[p]].ret # None /\ handles[wrote[p]].ret.tag = "Err")

\* the workspace task k writes into, between create_dir and the end of the
\* copy or the extraction
Writing(k) ==
    IF handles[k].st = "created"
    THEN {Workspace(route(dir[k], format, orderby).val)} ELSE {}

\* C22: no two unpack tasks that are active at the same time have the same
\* workspace directory as their write target
C22_ExclusiveWriteTarget ==
    \A j, k \in 1..Len(dir) : j # k => Writing(j) \cap Writing(k) = {}
(***************************************************************************)
(* Properties of the security screen, continued                            *)
(***************************************************************************)
\* the scanned files that cannot be opened or have no extension
ScanError(f) == ~Sample[f.name].readable \/ Sample[f.name].ext = None

\* C23: the scan of a file that cannot be opened or has no extension is
\* skipped: its task ends without a finding and without a panic, so that
\* check_dirs does not return an error because of it
C23_ScanErrorSkipped ==
    \A f \in entries :
        ScanError(f) =>
            /\ f \notin Flagged
            /\ task[f] # "panicked"
            /\ (phase = "aborted" => \E g \in entries : ~ScanError(g) /\ task[g] = "panicked")
(***************************************************************************)
(* Properties of the judge harness and of the runner                       *)
(***************************************************************************)
\* run() was invoked for case n of unit w and returned RunError::RE: the
\* class file was there, so prepare() was not invoked, and no child exists
SpawnFailed(w, n) ==
    /\ n \in Range(runLog[w])
    /\ Recorded(w, n)
    /\ classFile[w]
    /\ child[w][n].st = "none"

\* C24: after run() has failed with RE for a case, run() is not invoked for
\* a later case of the submission, and the outcomes the unit ends with are
\* the same Error for every case
C24_SpawnFailureEndsSubmission ==
    \A w \in Units : \A n \in 1..NumCases :
        SpawnFailed(w, n) =>
            /\ \A m \in (n + 1)..NumCases : m \notin Range(runLog[w])
            /\ pc[w] = "returned" =>
                   \A m \in 1..Len(ret[w]) : ret[w][m] = ret[w][n]

\* the positions at which a unit waits for the compiler or for its child
BlockingSteps == {"prepare", "loop", "write_all", "wait", "poll"}

\* C25: whatever the child does, a unit that waits for the compiler, for
\* the spawn, for its write to stdin, for the exit or for the output of the
\* child leaves that position
C25_NoStepBlocksForever ==
    \A w \in 1..MaxWorkspaces : \A s \in BlockingSteps :
        (IF w \in Units THEN pc[w] = s ELSE FALSE)
            ~> (IF w \in Units THEN pc[w] # s ELSE TRUE)

\* C26: a step in which run() returns an error, the compile error of the
\* prepare() it invoked included, starts no child and leaves process and
\* start as they were; a child starts only in a step of run() that returns
\* Ok, which without a class file is after that prepare() has succeeded
C26_RunSpawnsOnlyPrepared ==
    [][\A w \in Units :
          /\ (pc[w] = "loop" /\ runLog'[w] # runLog[w] /\ Len(ret'[w]) > Len(ret[w])) =>
                 (child'[w] = child[w] /\ proc'[w] = proc[w])
          /\ \A n \in 1..NumCases :
                 (child[w][n].st = "none" /\ child'[w][n].st # "none") =>
                     /\ pc[w] = "loop"
                     /\ i[w] = n
                     /\ ret'[w] = ret[w]
                     /\ proc'[w].process = Some(n)]_vars

C26_Witness ==
    /\ ~classFile[1]
    /\ runLog[1] = <<1, 2>>
    /\ Len(ret[1]) = 1
    /\ ret[1][1] = Error(1, "javac stderr")
    /\ child[1][1].st = "none"
    /\ child[1][2].st = "alive"
    /\ proc[1].process = Some(2)

\* the children of runner w that run() has started and that still run
LiveChildren(w) == {n \in 1..NumCases : child[w][n].st = "alive"}

\* C27: a runner has at most one running child, and no child of it runs at
\* the moment run() is invoked
C27_OneLiveChild ==
    \A w \in Units :
        /\ Cardinality(LiveChildren(w)) <= 1
        /\ (pc[w] = "loop" /\ i[w] <= NumCases) => LiveChildren(w) = {}

\* C28: the exit-code cell of a runner changes only from empty to the code
\* of the ended child that running() has just observed, and never again
C28_ExitCodeWrittenOnce ==
    [][\A w \in Units :
          IF proc'[w].exitcode = proc[w].exitcode THEN TRUE
          ELSE /\ proc[w].exitcode = None
               /\ called'.fn = "running"
               /\ IF proc[w].process = None THEN FALSE
                  ELSE /\ Held(w).st \in {"exited", "reaped"}
                       /\ Held(w).code # None
                       /\ proc'[w].exitcode = Held(w).code]_vars

\* the second child has ended with a code and running() has seen it; the
\* cell holds the code of the first
C28_Witness ==
    /\ proc[1].exitcode = Some(1)
    /\ proc[1].process = Some(2)
    /\ child[1][2].st = "reaped"
    /\ child[1][2].code = Some(2)
    /\ called.fn = "running"

\* C29: as long as no run() of a runner has succeeded, stdin, read_all,
\* signal, wait and runtime return an error, running returns false, and a
\* call other than run() changes nothing of the runner
C29_NoProcessNoEffect ==
    [][\A w \in Units :
          (proc[w].process = None /\ runLog'[w] = runLog[w]) =>
              /\ proc'[w] = proc[w]
              /\ child'[w] = child[w]
              /\ classFile'[w] = classFile[w]
              /\ IF called' = called THEN TRUE
                 ELSE /\ called'.fn \in {"stdin", "read_all", "signal", "wait",
                                         "runtime", "running"}
                      /\ called'.tag = IF called'.fn = "running" THEN "false"
                                       ELSE "Err"]_vars

\* signal() has returned its error on a runner whose only run() has failed
C29_Witness ==
    /\ proc[1] = NoProc
    /\ runLog[1] = <<1>>
    /\ called = Called("signal", "Err", "tried to kill PID that does not exist", <<>>)

(***************************************************************************)
(* Properties of static_check::check, continued                            *)
(***************************************************************************)
\* the newlines of text s before byte offset o (offsets count from 0)
Newlines(s, o) == {k \in 1..o : s[k] = NL}
\* the index of the line that holds offset o, and the offset it starts at
LineOf(s, o) == Cardinality(Newlines(s, o))
LineStart(s, o) == IF Newlines(s, o) = {} THEN 0
                   ELSE CHOOSE k \in Newlines(s, o) : \A j \in Newlines(s, o) : j <= k

\* the hits check computes for the scanned file
Hits ==
    illegal(Scanned.text,
            prohibited_str(prohibited(allow), Language(unwrap(Scanned.ext))))

\* C30: check ends without a panic for every readable file it searches, and
\* the k-th finding carries the line that holds the k-th hit as its row and
\* the distance of the hit from the start of that line as its column
C30_RowAndColumn ==
    (/\ verdict # None
     /\ Scanned.ext # None
     /\ Scanned.readable
     /\ "All" \notin allowed(allow))
    => /\ Returned.tag = "Ok"
       /\ Len(Returned.val) = Len(Hits)
       /\ \A k \in 1..Len(Hits) :
              Returned.val[k].loc =
                  <<Hits[k].off - LineStart(Scanned.text, Hits[k].off),
                    LineOf(Scanned.text, Hits[k].off)>>

(***************************************************************************)
(* Properties of the runner resolution                                     *)
(***************************************************************************)
\* the first file of listing l whose name matches tgt, None without one
FileMatching(l, tgt) ==
    find_in_dir([root |-> <<>>,
                 entries |-> SelectSeq(Flatten(l.entries), LAMBDA e : ~e.dir)], tgt)

\* the file the resolution is to select: the one matching CONFIG.entry, else
\* one matching main, else the only entry of the workspace
Selected(l, cfg) ==
    IF cfg # None /\ FileMatching(l, unwrap(cfg)) # None
    THEN FileMatching(l, unwrap(cfg))
    ELSE IF FileMatching(l, <<"m", "a", "i", "n">>) # None
    THEN FileMatching(l, <<"m", "a", "i", "n">>)
    ELSE IF Len(l.entries) = 1 /\ ~l.entries[1].dir THEN Some(l.entries[1])
    ELSE None

\* C31: the runner of a workspace gets the selected file as its entry
\* point; without a selected file that can be run, the unit returns the
\* resolution error and the workspace gets one Error per test case
C31_EntryPointResolved ==
    \A w \in Units :
        (IF w \in DOMAIN listing THEN listing[w] # None ELSE FALSE)
        /\ pc[w] \notin {"spawned", "from_dir"}
        => LET sel == Selected(unwrap(listing[w]), config_entry)
           IN  IF sel # None /\ unwrap(sel).ext = Some("java")
               THEN proc[w].entry = Some(unwrap(sel).name)
               ELSE /\ pc[w] = "returned"
                    /\ out[w] = CE(None, "Runner initialization failed")
                    /\ ResultsOf(w) \subseteq {errors(out[w])}

(***************************************************************************)
(* Properties of the pattern router, continued                             *)
(***************************************************************************)
\* run(): the counters `ignored` and `failed` over what unpack_dir returned
ignored(list) ==
    Cardinality({k \in 1..Len(list) : list[k] = UnpackErr("Ignore")})
failed(list) ==
    Cardinality({k \in 1..Len(list) :
                    list[k].tag = "Err" /\ list[k] # UnpackErr("Ignore")})

\* a directory, a file whose extension is not in the known list (toml and
\* json are not), or a file whose name the compiled pattern does not match
Skipped(entry) ==
    \/ entry.type = "dir"
    \/ ~KnownFile(entry)
    \/ generate_regex(format).tag = "Ok" /\ Caps(entry) = None

\* C32: the unpack of such an entry returns Ignore in a step that creates
\* and writes nothing below TEMPDIR, and once unpack_dir has returned, run()
\* counts it as ignored and not as failed
C32_SkippedEntryIgnored ==
    [][/\ \A k \in 1..Len(dir) :
             (Skipped(dir[k]) /\ handles[k].st = "unpack" /\ handles'[k] # handles[k])
             => /\ handles'[k] = [st |-> "done", ret |-> UnpackErr("Ignore")]
                /\ created' = created
                /\ wrote' = wrote
       /\ phase' = "unpack_dir" =>
             /\ \A k \in 1..Len(dir) :
                    Skipped(dir[k]) => target'[k] = UnpackErr("Ignore")
             /\ ignored(target') >= Cardinality({k \in 1..Len(dir) : Skipped(dir[k])})
             /\ failed(target') <= Cardinality({k \in 1..Len(dir) : ~Skipped(dir[k])})]_vars

\* a directory and a file with an unknown extension next to nothing else
C32_Witness ==
    /\ phase = "unpack_dir"
    /\ format = <<"{name}", ".", "{extension}">>
    /\ dir = <<Dir(<<"7", ".", "c">>), File(<<"c", ".", "4">>, "text")>>
    /\ target = <<UnpackErr("Ignore"), UnpackErr("Ignore")>>
    /\ created = {}
    /\ ignored(target) = 2
    /\ failed(target) = 0

\* entries j and k are siblings: each is routed when unpacked by itself,
\* and both to the workspace of the same key
Siblings(j, k) ==
    /\ j # k
    /\ Alone(dir[j]).ret.tag = "Ok"
    /\ Alone(dir[k]).ret = Alone(dir[j]).ret

\* C33: once unpack_dir has returned, two siblings have both returned Ok
\* with the same workspace, the workspace exists, and each file a sibling
\* has placed in it holds the bytes of that sibling
C33_SiblingsShareWorkspace ==
    phase = "unpack_dir" =>
        \A j, k \in 1..Len(dir) :
            Siblings(j, k) =>
                /\ target[j] = Alone(dir[j]).ret
                /\ target[k] = target[j]
                /\ Workspace(target[j].val) \in created
                /\ \A p \in Placed(j) : p \in DOMAIN wrote /\ wrote[p] = j

(***************************************************************************)
(* C34: the workspaces handed to test_dirs                                 *)
(***************************************************************************)
\* the workspaces of the Ok results, less the workspaces with a finding
UnpackedAndClean ==
    {Workspace(k) : k \in Oks(target)} \ {Workspace(f.key) : f \in check_result}

\* C34: the set handed to test_dirs is the set of workspaces whose unpack
\* returned Ok less the workspaces with a finding; a directory left by an
\* unpack that returned an error is not judged
C34_JudgedAreUnpackedAndClean ==
    phase = "test_dirs" => exec = UnpackedAndClean

\* a failed unpack has left its directory and run() has built `exec`
C34_Witness ==
    /\ phase = "test_dirs"
    /\ created # {}
    /\ UnpackErr("ZipProblem") \in Range(target)

(***************************************************************************)
(* C35: screening before judging                                           *)
(***************************************************************************)
\* the file was scanned by check_dirs and has no finding
ScannedClean(f) == f \in DOMAIN findings /\ findings[f] = <<>>

\* C35: when run() calls test_dirs, every workspace in the set was passed
\* to check_dirs, and each of its files with a known extension was scanned
\* and has no finding
C35_JudgedWereScreened ==
    phase = "test_dirs" =>
        /\ exec \subseteq {Workspace(k) : k \in unpacked}
        /\ \A f \in tree :
              Workspace(f.key) \in exec /\ f.name \in known => ScannedClean(f)

(***************************************************************************)
(* C36: one unit and one result per workspace                              *)
(***************************************************************************)
\* the number of positions of a list that hold a value
Count(list, x) == Cardinality({k \in DOMAIN list : list[k] = x})

\* C36: every workspace handed to test_dirs is the workspace of exactly one
\* unit, and is the path of exactly one entry of the list test_dirs
\* returns, however often unpack_dir returned it
C36_OneUnitOneResult ==
    phase \in {"judging", "judged"} =>
        \A p \in exec :
            /\ Count(v, p) = 1
            /\ returned = "Ok" => Count([k \in DOMAIN results |-> results[k].path] @@ <<>>, p) = 1

\* unpack_dir returned the workspace of alice twice, and test_dirs has
\* returned its list
C36_Witness ==
    /\ phase = "judged"
    /\ returned = "Ok"
    /\ Count(target, UnpackOk("alice")) = 2
    /\ Workspace("alice") \in exec

(***************************************************************************)
(* C37: permits are given back                                             *)
(***************************************************************************)
\* C37: a unit that has returned holds no permit, and when test_dirs has
\* returned, with Ok or with Err, every permit of its semaphore is
\* available again
C37_PermitsReturned ==
    /\ \A w \in Units : pc[w] = "returned" => ~holds[w]
    /\ returned # "no" => permits = Semaphore_new(threads)

(***************************************************************************)
(* C38: input and output of a case belong to the process of that case      *)
(***************************************************************************)
\* the positions of test_proc between a successful run() and its return
AfterRun == {"stdin", "write_all", "wait", "poll"}

\* C38: while test_proc writes the input of case n, waits and reads,
\* self.process is the child spawned for case n; the input of a case was
\* written only if its child was spawned; and the text of a Correct or
\* Wrong outcome of case n is the text the child of case n printed
C38_OutputOfOwnProcess ==
    \A w \in Units :
        /\ pc[w] \in AfterRun => proc[w].process = Some(i[w])
        /\ \A n \in fed[w] : child[w][n].st # "none"
        /\ \A n \in 1..Len(ret[w]) :
              ret[w][n].kind \in {"Correct", "Wrong"} =>
                  /\ ret[w][n].case = n
                  /\ ret[w][n].output = child[w][n].output

\* the child of case 1 was killed on timeout after printing a text, and
\* case 2 was judged Correct on the different text of its own child
C38_Witness ==
    \E w \in Units :
        /\ 1 \in timedOut[w]
        /\ Len(ret[w]) >= 2
        /\ ret[w][2].kind = "Correct"
        /\ child[w][1].output # <<>>
        /\ child[w][1].output # child[w][2].output

(***************************************************************************)
(* C39: the locks of the screening phase                                   *)
(***************************************************************************)
\* the tasks that are evaluating check_file
Scanning == {f \in DOMAIN task : task[f] = "locked"}

\* the permits the tasks hold
PermitsHeld == Cardinality({f \in DOMAIN task : task[f] \in {"permit", "locked"}})

\* at most one task scans, it is the holder of the lock of the findings
\* map and holds a permit; and while check_dirs has not returned, some
\* task or check_dirs itself can take a step
ScreenLocks ==
    /\ Cardinality(Scanning) <= 1
    /\ \A f \in Scanning : resultsLock = Some(f)
    /\ resultsLock # None => unwrap(resultsLock) \in Scanning
    /\ semaphore + PermitsHeld = threads
    /\ phase = "check_dirs" => ENABLED NextScreen

\* the findings map and the error list change only in a step of the task
\* that holds the lock of the map, and only for the file of that task
UnderLock ==
    findings' # findings \/ errs' # errs =>
        /\ resultsLock # None
        /\ resultsLock' = None
        /\ \A g \in DOMAIN findings : g \in DOMAIN findings' /\ findings'[g] = findings[g]
        /\ (DOMAIN findings' \ DOMAIN findings) \cup (errs' \ errs) = {unwrap(resultsLock)}

\* C39: in check_dirs the findings map is changed only by the task that
\* holds its lock, locks are taken in the order permit, findings map, error
\* list and check_dirs cannot deadlock, and at most one file is being
\* scanned at any time, whatever the thread count
C39_SerialScanNoDeadlock == []ScreenLocks /\ [][UnderLock]_vars

\* two permits are out, one task is scanning and the other waits for the
\* lock of the findings map
C39_Witness ==
    /\ threads >= 2
    /\ Cardinality(Scanning) = 1
    /\ \E f \in DOMAIN task : task[f] = "permit"
====
